---- MODULE Spec2Model ----
(***************************************************************************)
(* Ideazoop: the idea workflow and access-control core.                    *)
(*                                                                         *)
(* The model covers the route handlers under src/app/api, GET              *)
(* /auth/callback, the middleware and refreshSession() of src/lib/auth.ts, *)
(* the identity lookup of src/lib/supabase.ts and the storage layer of     *)
(* 001_initial_schema.sql (tables, row level security policies, foreign    *)
(* keys and notification triggers).                                        *)
(*                                                                         *)
(* A request handler is a sequence of store round trips; every await on    *)
(* the store is one step, so that requests can interleave exactly where    *)
(* the code suspends.  Each handler runs in a slot of `reqs`.              *)
(*                                                                         *)
(* Conventions:                                                            *)
(*  - createServerComponentClient is an async function.  getCurrentUser    *)
(*    awaits it and works on the client: authentication and the profile    *)
(*    lookup run as the session user.  The route handlers call it without  *)
(*    await and hold a Promise; their first supabase.from(...) throws a    *)
(*    TypeError, so no statement of theirs reaches the store.  A handler   *)
(*    answers the error from its catch block with 500 Internal Server      *)
(*    Error; the error thrown inside a gate is not caught at all;          *)
(*  - createAdminClient is synchronous: DELETE /api/ideas/[id], the owner  *)
(*    lookup of /api/ideas/[id], canModifyIdea and the assist gateway use  *)
(*    the service role and bypass row level security;                      *)
(*  - the policies and triggers of the schema act on the statements that   *)
(*    reach the tables: those of the service role client, and those of a   *)
(*    client that holds a user's session (SpecT);                          *)
(*  - `sess` is the session a request carries in its cookies.  The client  *)
(*    getCurrentUser works on is the one createServerComponentClient       *)
(*    returns: the client in the module variable                           *)
(*    serverComponentClientCache when there is one, built on the cookies   *)
(*    of the request that built it, else a client built on the cookies of  *)
(*    the calling request and stored in the variable.  The test of the     *)
(*    variable and the assignment are separated by awaits and are two      *)
(*    steps.  The variable lives as long as the server process (Restart).  *)
(*    A call that is not awaited while the variable is null stays          *)
(*    suspended at the imports after its caller has returned (detached)    *)
(*    and assigns its client later;                                        *)
(*  - the table of profiles changes by sign-up (handle_new_user), by       *)
(*    create_admin_user and by updates of a user's own row;                *)
(*  - created_at / updated_at columns are not modelled: rows are ordered   *)
(*    by their id, which is allocated in creation order;                   *)
(*  - strings are sequences of characters; an optional field of a request  *)
(*    body is a sequence of length 0 (absent) or 1 (present).              *)
(*  - store failures happen only in the action that names one             *)
(*    (AssistLogInsertFailed), which belongs to SpecAF;                    *)
(*  - the rows of openai_logs carry the day of created_at and a label of   *)
(*    the response column; they are kept as a bag, their ids left out.     *)
(***************************************************************************)
EXTENDS Integers, Sequences, FiniteSets, Bags, TLC

VARIABLES profiles, ideas, comments, notifications, ids, reqs,
          openai_logs,   \* the rows of public.openai_logs, a bag (ids left out)
          today,         \* the current day (the day of new Date())
          calls,         \* number of calls made to openai.chat.completions.create
          serverComponentClientCache,  \* the module variable of src/lib/supabase.ts
          detached       \* the cookies of the createServerComponentClient() calls
                         \* that were not awaited and are suspended at the imports

vars == <<profiles, ideas, comments, notifications, ids, reqs, openai_logs, today, calls,
          serverComponentClientCache, detached>>

(***************************************************************************)
(* Bounds of the model.                                                    *)
(***************************************************************************)
MaxIdeas == 1
MaxComments == 1
MaxNotifications == 4
\* calls of the external service
MaxCalls == 7
\* the days are 0..MaxDay
MaxDay == 1

IdeaIds == 1..MaxIdeas
Slots == {"r1", "r2"}

(***************************************************************************)
(* Users.  ann and dan have role owner, bob is an admin, ned has a valid   *)
(* session but no profile row until he signs up, eve is the user           *)
(* create_admin_user adds (she sends no request), NoSession is a request   *)
(* without credentials.                                                    *)
(***************************************************************************)
Members == {"ann", "bob", "dan"}
Users == Members \cup {"ned", "eve"}
NoSession == "nosession"
Sessions == Members \cup {"ned", NoSession}
NoUser == "nouser"
NoProfile == "noprofile"
user_role == {"owner", "admin"}
idea_status == {"draft", "submitted", "approved", "rejected"}

(***************************************************************************)
(* Strings are run-length encoded: a sequence of runs [c, n], n >= 1       *)
(* copies of the character c, adjacent runs having different characters.   *)
(***************************************************************************)
Run(c, n) == [c |-> c, n |-> n]
Text(n, c) == IF n = 0 THEN <<>> ELSE << Run(c, n) >>

\* String.prototype.length
RECURSIVE length(_)
length(s) == IF s = <<>> THEN 0 ELSE Head(s).n + length(Tail(s))

RECURSIVE TrimStart(_)
TrimStart(s) == IF s = <<>> THEN s
                ELSE IF Head(s).c = " " THEN TrimStart(Tail(s)) ELSE s

RECURSIVE TrimEnd(_)
TrimEnd(s) == IF s = <<>> THEN s
              ELSE IF s[Len(s)].c = " " THEN TrimEnd(SubSeq(s, 1, Len(s) - 1)) ELSE s

\* String.prototype.trim
trim(s) == TrimEnd(TrimStart(s))

(***************************************************************************)
(* Inputs of the requests.                                                 *)
(***************************************************************************)
T_abc == << Run("a", 1), Run("b", 1), Run("c", 1) >>      \* "abc"
T_pad == << Run(" ", 1), Run("a", 1), Run("b", 1) >>      \* " ab"
T_ab == << Run("a", 1), Run("b", 1) >>                    \* "ab"
D_ok == Text(10, "d")
D_short == Text(9, "d")

IsSet(o) == o # <<>>

CreateBodies ==
    { [title |-> T_abc, description |-> D_ok, tags |-> <<>>],
      [title |-> T_ab, description |-> D_ok, tags |-> <<>>],
      [title |-> T_abc, description |-> D_short, tags |-> <<>>] }

PutBodies ==
    { [title |-> <<T_pad>>, description |-> <<>>, tags |-> <<>>],
      [title |-> <<T_ab>>, description |-> <<>>, tags |-> <<>>] }

DecisionBodies ==
    { [action |-> "approve", comment |-> Text(3, "x")],
      [action |-> "reject", comment |-> Text(3, "x")],
      [action |-> "approve", comment |-> Text(1000, "x")],
      [action |-> "reject", comment |-> Text(2, "x")],
      [action |-> "approve", comment |-> Text(1001, "x")],
      [action |-> "defer", comment |-> Text(3, "x")] }

CommentBodies ==
    { [body |-> Text(0, "y")], [body |-> Text(1, "y")] }

(***************************************************************************)
(* Responses: createErrorResponse(message, status, error) and the success  *)
(* responses, reduced to the HTTP status and the error label.              *)
(***************************************************************************)
createErrorResponse(status, error) == [status |-> status, error |-> error]
Success(status) == [status |-> status, error |-> "none"]
NoResponse == [status |-> 0, error |-> "none"]

UNAUTHORIZED == createErrorResponse(401, "Unauthorized")
ADMIN_REQUIRED == createErrorResponse(403, "Forbidden")
OWNER_REQUIRED == createErrorResponse(403, "Forbidden")
FORBIDDEN == createErrorResponse(403, "Forbidden")
NOT_FOUND == createErrorResponse(404, "Not Found")
INVALID_STATUS == createErrorResponse(400, "Invalid Status")
VALIDATION_ERROR == createErrorResponse(400, "Validation Error")
RATE_LIMITED == createErrorResponse(429, "Rate Limit Exceeded")
AI_SERVICE_ERROR == createErrorResponse(500, "AI Service Error")
INTERNAL_SERVER_ERROR == createErrorResponse(500, "Internal Server Error")
DATABASE_ERROR == createErrorResponse(500, "Database Error")

(***************************************************************************)
(* The store: tables are sets of rows, each row carries its id.            *)
(***************************************************************************)
IdeaRow(i) == CHOOSE r \in ideas : r.id = i
IdeaExists(i) == \E r \in ideas : r.id = i

\* profiles.role of a user, NoProfile when the user has no row
RoleOf(u) == IF u \in DOMAIN profiles THEN profiles[u] ELSE NoProfile
IsAdminRow(u) == RoleOf(u) = "admin"

\* policies "Owners can read own ideas" and "Admins can read all ideas"
IdeaSelectPolicy(u, r) == r.owner_id = u \/ IsAdminRow(u)

\* policies "Owners can update own draft or rejected ideas" and
\* "Admins can update status of submitted ideas": the USING parts, OR-ed.
IdeaUpdateUsing(u, r) ==
    \/ r.owner_id = u /\ (r.status = "draft" \/ r.status = "rejected")
    \/ IsAdminRow(u)

\* The WITH CHECK parts, OR-ed, applied to the new row.  The admin policy's
\* check compares each column of the new row with itself.
IdeaUpdateCheck(u, new) ==
    \/ new.owner_id = u /\ (new.status = "draft" \/ new.status = "rejected")
    \/ (new.owner_id = new.owner_id /\ new.title = new.title
        /\ new.description = new.description /\ new.tags = new.tags)

\* select ... from ideas where id = i, through the service role client
SelectIdeaAdmin(i) == IF IdeaExists(i) THEN <<IdeaRow(i)>> ELSE <<>>

\* update ideas set <fields> where id = i, sent with the session of user u:
\* the row must pass the USING policies (and be visible, the statement reads
\* the id column), the new row the WITH CHECK policies.  <<new>> is the row
\* stored, <<>> an error or no row updated.
UpdateIdeaAs(u, i, new) ==
    IF /\ IdeaExists(i)
       /\ IdeaUpdateUsing(u, IdeaRow(i))
       /\ IdeaSelectPolicy(u, IdeaRow(i))
       /\ IdeaUpdateCheck(u, new)
       /\ IdeaSelectPolicy(u, new)
    THEN <<new>> ELSE <<>>

\* rows of a table that reference idea i are removed with it
\* (idea_id ... references public.ideas(id) on delete cascade)
CascadeDelete(rows, i) == { r \in rows : r.idea_id # i }

\* the rows of seq, numbered from n + 1 in order
RECURSIVE Numbered(_, _)
Numbered(seq, n) ==
    IF seq = <<>> THEN {}
    ELSE {[id |-> n + 1] @@ Head(seq)} \cup Numbered(Tail(seq), n + 1)

\* an enumeration of a finite set
RECURSIVE SeqOf(_)
SeqOf(S) == IF S = {} THEN <<>>
            ELSE LET x == CHOOSE y \in S : TRUE IN <<x>> \o SeqOf(S \ {x})

Admins == { u \in DOMAIN profiles : profiles[u] = "admin" }

(***************************************************************************)
(* Triggers.  Each returns the notification rows it inserts, in order.     *)
(***************************************************************************)
\* the trigger with old and new status exchanged in the meta column
handle_idea_status_change_Swapped(old, new) ==
    IF old.status # new.status
    THEN << [user_id |-> new.owner_id, idea_id |-> new.id, type |-> "status_change",
             meta |-> [old_status |-> new.status, new_status |-> old.status],
             read |-> FALSE] >>
    ELSE <<>>

\* trigger on_idea_status_changed (after update of status on ideas)
handle_idea_status_change(old, new) ==
    IF old.status # new.status
    THEN << [user_id |-> new.owner_id, idea_id |-> new.id, type |-> "status_change",
             meta |-> [old_status |-> old.status, new_status |-> new.status],
             read |-> FALSE] >>
    ELSE <<>>

\* if comment_author_role = 'admin' then ... else ... (a missing role is
\* NULL and takes the else branch)
notification_type(comment_author_role) ==
    IF comment_author_role = "admin" THEN "admin_comment" ELSE "user_comment"

\* the owner is notified of every comment, their own included
NotifiesOwner_Always(author_id, idea_owner_id) == TRUE

\* if new.author_id <> idea_owner_id
NotifiesOwner(author_id, idea_owner_id) == author_id # idea_owner_id

\* the admins are never told
NotifiesAdmins_Never(comment_author_role) == FALSE

\* if comment_author_role <> 'admin' (not true for a NULL role)
NotifiesAdmins(comment_author_role) ==
    comment_author_role # "admin" /\ comment_author_role # NoProfile

\* trigger on_comment_created (after insert on comments)
handle_new_comment(new) ==
    LET idea_owner_id == IdeaRow(new.idea_id).owner_id
        comment_author_role == RoleOf(new.author_id)
        meta == [comment_id |-> new.id, author_id |-> new.author_id]
        toOwner == IF NotifiesOwner(new.author_id, idea_owner_id)
                   THEN << [user_id |-> idea_owner_id, idea_id |-> new.idea_id,
                            type |-> notification_type(comment_author_role),
                            meta |-> meta, read |-> FALSE] >>
                   ELSE <<>>
        adminSeq == SeqOf(Admins)
        toAdmins == IF NotifiesAdmins(comment_author_role)
                    THEN [k \in 1..Len(adminSeq) |->
                            [user_id |-> adminSeq[k], idea_id |-> new.idea_id,
                             type |-> "new_comment", meta |-> meta, read |-> FALSE]]
                    ELSE <<>>
    IN toOwner \o toAdmins

(***************************************************************************)
(* Identity resolver and middleware (src/lib/supabase.ts, src/lib/auth.ts) *)
(***************************************************************************)
NoClient == "noclient"

\* the value of createServerComponentClient() where the call is not awaited
Promise == "Promise"
UnawaitedClient == Promise

\* the error of calling a property a Promise does not have
TypeError == <<"TypeError", "supabase.from is not a function">>

\* supabase.from(table): the query builder of a client (<<>>), or the error
\* thrown
from(supabase) == IF supabase = Promise THEN TypeError ELSE <<>>

\* supabase.rpc(fn): the call of a client (<<>>), or the error thrown
rpc(supabase) ==
    IF supabase = Promise THEN <<"TypeError", "supabase.rpc is not a function">> ELSE <<>>

\* the catch block of a handler: an error that is not a ZodError is answered
\* with 500 Internal Server Error
Caught(thrown) == INTERNAL_SERVER_ERROR

\* an error nothing catches: the request ends with the error, not with a
\* response of the route (the framework answers 500)
Uncaught(thrown) == createErrorResponse(500, thrown[1])

\* createServerComponentClient() up to its first await: the test of the
\* module variable.  The value is the client the call returns at once
\* (a client is named by the session whose cookies it reads), or NoClient
\* when the call goes on to build one.
createServerComponentClient == serverComponentClientCache

\* createServerComponentClient() after its two imports: the call builds a
\* client on the cookies of the request it runs in and assigns it to the
\* module variable, whatever the variable holds by then
CacheClient(sess) == serverComponentClientCache' = sess

\* getCurrentUser() once it holds its client: the session the client reads,
\* then the profile row of that user
getCurrentUser(client) ==
    IF client = NoSession
    THEN [user |-> NoUser, profile |-> NoProfile, error |-> FALSE]
    ELSE IF RoleOf(client) = NoProfile
    THEN [user |-> client, profile |-> NoProfile, error |-> TRUE]
    ELSE [user |-> client, profile |-> RoleOf(client), error |-> FALSE]

Passed(resp) == resp = NoResponse

\* the test every gate makes first: if (error || !user)
Unauthenticated(cu) == cu.error \/ cu.user = NoUser

withAuth(cu) ==
    IF Unauthenticated(cu) THEN UNAUTHORIZED ELSE NoResponse

withAdmin(cu) ==
    IF Unauthenticated(cu) THEN UNAUTHORIZED
    ELSE IF cu.profile = NoProfile \/ cu.profile # "admin" THEN ADMIN_REQUIRED
    ELSE NoResponse

\* ownerId is what the await on getOwnerId gives: <<>> (null), <<owner>>,
\* or the error it throws, which the gate does not catch
withResourceOwner(cu, ownerId) ==
    IF Unauthenticated(cu) THEN UNAUTHORIZED
    ELSE IF ownerId = TypeError THEN Uncaught(ownerId)
    ELSE IF ownerId = <<>> \/ (ownerId[1] # cu.user /\ cu.profile # "admin")
    THEN OWNER_REQUIRED
    ELSE NoResponse

\* getIdeaOwnerId of /api/ideas/[id] (service role client)
getIdeaOwnerIdAdmin(i) ==
    IF SelectIdeaAdmin(i) = <<>> THEN <<>> ELSE << SelectIdeaAdmin(i)[1].owner_id >>

\* getIdeaOwnerId of /api/ideas/[id]/submit: it calls .from on the client it
\* did not await, outside any try block
getIdeaOwnerIdAs(i) == from(UnawaitedClient)

\* canModifyIdea once its own getCurrentUser() has given cu: TRUE iff
\* { canModify: true }
canModifyIdea(cu, i) ==
    IF cu.user = NoUser THEN FALSE
    ELSE IF SelectIdeaAdmin(i) = <<>> THEN FALSE
    ELSE LET idea == SelectIdeaAdmin(i)[1] IN
         IF cu.profile = "admin" /\ idea.status = "submitted" THEN TRUE
         ELSE IF idea.owner_id = cu.user
                 /\ (idea.status = "draft" \/ idea.status = "rejected") THEN TRUE
         ELSE FALSE

(***************************************************************************)
(* Request body schemas (zod): TRUE iff parse succeeds.                    *)
(***************************************************************************)
createIdeaSchema(b) ==
    /\ length(b.title) >= 3 /\ length(b.title) <= 100
    /\ length(b.description) >= 10

updateIdeaSchema(b) ==
    /\ IsSet(b.title) => (length(b.title[1]) >= 3 /\ length(b.title[1]) <= 100)
    /\ IsSet(b.description) => length(b.description[1]) >= 10

decisionSchema(b) ==
    /\ b.action \in {"approve", "reject"}
    /\ length(b.comment) >= 3 /\ length(b.comment) <= 1000

createCommentSchema(b) ==
    length(b.body) >= 1 /\ length(b.body) <= 1000

(***************************************************************************)
(* Request slots.  A request record holds the route (op), the session of   *)
(* the cookies the request carries (sess), the client its gate got from    *)
(* createServerComponentClient (client), the identity the gate resolved    *)
(* (user, role), its parameters, its program point and its response.       *)
(***************************************************************************)
NoBody == [none |-> TRUE]
Idle == [pc |-> "idle", op |-> "none", sess |-> NoSession, client |-> NoClient,
         user |-> NoUser, role |-> NoProfile,
         idea |-> 0, body |-> NoBody, resp |-> NoResponse, data |-> <<>>]

\* request r goes on to program point pc with the identity cu of its gate
Running(r, cu, pc) ==
    [r EXCEPT !.user = cu.user, !.role = cu.profile, !.pc = pc]

\* request r, whose gate resolved cu, has returned resp
Returned(r, cu, resp, data) ==
    [r EXCEPT !.user = cu.user, !.role = cu.profile, !.pc = "done",
              !.resp = resp, !.data = data]

Finish(s, resp) == reqs' = [reqs EXCEPT ![s].pc = "done", ![s].resp = resp]
Goto(s, pc) == reqs' = [reqs EXCEPT ![s].pc = pc]

CanStart(s) == reqs[s].pc = "idle"

\* the identity the gate of a running request destructured from its
\* getCurrentUser() and still holds
Cu(s) == [user |-> reqs[s].user, profile |-> reqs[s].role, error |-> FALSE]

InsertNotifications(rows) ==
    /\ notifications' = notifications \cup Numbered(rows, ids.notification)
    /\ Len(rows) + ids.notification <= MaxNotifications

ProgramPoints ==
    {"idle", "import", "session", "owner", "identity", "fetch", "check", "delete", "done",
     "parse", "count", "call", "logparse", "logstructure", "log"}

TypeOK ==
    /\ DOMAIN profiles \subseteq Users
    /\ \A u \in DOMAIN profiles : profiles[u] \in user_role
    /\ \A r \in ideas : r.id \in IdeaIds /\ r.status \in idea_status
                        /\ r.owner_id \in DOMAIN profiles
    /\ \A c \in comments : c.id \in 1..MaxComments
    /\ \A n \in notifications : n.id \in 1..MaxNotifications
    /\ \A s \in Slots : /\ reqs[s].pc \in ProgramPoints
                        /\ reqs[s].client \in Sessions \cup {NoClient}
    /\ IsABag(openai_logs)
    /\ today \in 0..MaxDay
    /\ calls \in 0..MaxCalls
    /\ serverComponentClientCache \in Sessions \cup {NoClient}
    /\ detached \subseteq Sessions

Init ==
    /\ profiles = [u \in Members |-> IF u = "bob" THEN "admin" ELSE "owner"]
    /\ ideas = {}
    /\ comments = {}
    /\ notifications = {}
    /\ ids = [idea |-> 0, comment |-> 0, notification |-> 0]
    /\ reqs = [s \in Slots |-> Idle]
    /\ openai_logs = EmptyBag
    /\ today = 0
    /\ calls = 0
    /\ serverComponentClientCache = NoClient
    /\ detached = {}

(***************************************************************************)
(* Statements on the tables.                                               *)
(***************************************************************************)
\* the SET clause of an update: each column absent (<<>>) or <<value>>
SetOf(title, description, tags, status) ==
    [title |-> title, description |-> description, tags |-> tags, status |-> status]

ApplySet(old, set) ==
    [old EXCEPT !.title = IF IsSet(set.title) THEN set.title[1] ELSE @,
                !.description = IF IsSet(set.description) THEN set.description[1] ELSE @,
                !.tags = IF IsSet(set.tags) THEN set.tags[1] ELSE @,
                !.status = IF IsSet(set.status) THEN set.status[1] ELSE @]

\* TRUE iff the update sent with the session of user u stores a row
UpdateAllowed(u, i, set) ==
    /\ IdeaExists(i)
    /\ UpdateIdeaAs(u, i, ApplySet(IdeaRow(i), set)) # <<>>

\* the update itself, with the status trigger, which fires when status is in
\* the SET clause
UpdateIdea(i, set) ==
    LET old == IdeaRow(i)
        new == ApplySet(old, set)
        rows == IF IsSet(set.status) THEN handle_idea_status_change(old, new) ELSE <<>>
    IN /\ ideas' = (ideas \ {old}) \cup {new}
       /\ InsertNotifications(rows)
       /\ ids' = [ids EXCEPT !.notification = @ + Len(rows)]
       /\ UNCHANGED comments

\* insert into comments, with the comment trigger
InsertComment(i, author, body) ==
    LET new == [id |-> ids.comment + 1, idea_id |-> i, author_id |-> author, body |-> body]
        rows == handle_new_comment(new)
    IN /\ ids.comment < MaxComments
       /\ comments' = comments \cup {new}
       /\ InsertNotifications(rows)
       /\ ids' = [ids EXCEPT !.comment = @ + 1, !.notification = @ + Len(rows)]
       /\ UNCHANGED ideas

NoWrite == UNCHANGED <<ideas, comments, notifications, ids>>

\* what a step of an /api/ideas or /api/inbox request leaves alone besides
\* the tables of ideas
Rest == UNCHANGED <<serverComponentClientCache, detached, profiles, openai_logs, today, calls>>

(***************************************************************************)
(* The start of every request.  Each route under /api is wrapped in a gate *)
(* whose first statement is await getCurrentUser(), whose first statement  *)
(* is await createServerComponentClient().  GET /auth/callback and         *)
(* refreshSession() have no gate and do not await the call.                *)
(***************************************************************************)
\* A request of route op arrives in slot s with the cookies of sess.  Its
\* createServerComponentClient() tests the module variable: on a client it
\* returns it, on null it starts the imports.
Receive(s, op, sess, i, body) ==
    /\ CanStart(s)
    /\ reqs' = [reqs EXCEPT ![s] =
                  [Idle EXCEPT !.op = op, !.sess = sess, !.idea = i, !.body = body,
                               !.client = createServerComponentClient,
                               !.pc = IF createServerComponentClient = NoClient
                                      THEN "import" ELSE "session"]]
    /\ NoWrite
    /\ Rest

\* The imports have resolved: the call builds the client of this request,
\* assigns it to the module variable and returns it.
BuildClient(s) ==
    /\ reqs[s].pc = "import"
    /\ CacheClient(reqs[s].sess)
    /\ reqs' = [reqs EXCEPT ![s].client = reqs[s].sess, ![s].pc = "session"]
    /\ NoWrite
    /\ UNCHANGED <<detached, profiles, openai_logs, today, calls>>

\* A call of createServerComponentClient() that is not awaited, made with
\* the cookies of sess while the module variable is null: the caller goes on
\* with the Promise, and the call stays suspended at the imports.  With a
\* client in the variable the call changes nothing.
CallWithoutAwait(sess) ==
    /\ createServerComponentClient = NoClient
    /\ sess \notin detached
    /\ detached' = detached \cup {sess}
    /\ NoWrite
    /\ UNCHANGED <<serverComponentClientCache, profiles, reqs, openai_logs, today, calls>>

\* GET /auth/callback?code=...: no gate.  supabase is the Promise, so
\* supabase.auth is undefined and exchangeCodeForSession throws; the catch
\* block redirects (307) to /?error=Authentication%20failed.  No statement
\* is sent.  Without a code the route redirects to / and calls nothing.
AuthCallback(sess) == CallWithoutAwait(sess)

\* refreshSession() of lib/auth.ts: no gate.  supabase is the Promise, so
\* supabase.auth.getSession throws a TypeError to the caller.  No statement
\* is sent.
refreshSession(sess) == CallWithoutAwait(sess)

\* The imports of a call that was not awaited have resolved: the call
\* builds the client of its cookies and assigns it to the module variable,
\* whatever the variable holds by now; nobody receives the client.
DetachedBuild(sess) ==
    /\ sess \in detached
    /\ CacheClient(sess)
    /\ detached' = detached \ {sess}
    /\ NoWrite
    /\ UNCHANGED <<profiles, reqs, openai_logs, today, calls>>

\* The server process ends and a new one starts: its module variable is
\* null and no call is suspended.  No request is in flight.
Restart ==
    /\ \A s \in Slots : reqs[s].pc = "idle"
    /\ serverComponentClientCache # NoClient \/ detached # {}
    /\ serverComponentClientCache' = NoClient
    /\ detached' = {}
    /\ NoWrite
    /\ UNCHANGED <<profiles, reqs, openai_logs, today, calls>>

\* a handler that runs in one step of slot s once getCurrentUser() has its
\* client: cu is the identity resolved, resp what the route returns; no
\* statement reaches the tables
Handle(s, op, cu, resp) ==
    /\ reqs[s].pc = "session" /\ reqs[s].op = op
    /\ reqs' = [reqs EXCEPT ![s] = Returned(reqs[s], cu, resp, <<>>)]
    /\ NoWrite
    /\ Rest

(***************************************************************************)
(* POST /api/ideas                                                         *)
(***************************************************************************)
\* After the gate and createIdeaSchema.parse the handler calls .from on the
\* client it did not await; its catch block answers the TypeError.
CreateIdea(s) ==
    LET cu == getCurrentUser(reqs[s].client)
        resp == IF ~Passed(withAuth(cu)) THEN withAuth(cu)
                ELSE IF ~createIdeaSchema(reqs[s].body) THEN VALIDATION_ERROR
                ELSE Caught(from(UnawaitedClient))
    IN Handle(s, "create", cu, resp)

(***************************************************************************)
(* GET /api/ideas/[id]                                                     *)
(***************************************************************************)
GetIdea(s) ==
    LET cu == getCurrentUser(reqs[s].client)
        resp == IF ~Passed(withAuth(cu)) THEN withAuth(cu)
                ELSE Caught(from(UnawaitedClient))
    IN Handle(s, "get", cu, resp)

(***************************************************************************)
(* POST /api/ideas/[id]/submit                                             *)
(***************************************************************************)
\* a submit that sends the status update before anything else: the row of
\* the idea moves to submitted whoever asks
Submit_UpdateFirst(s) ==
    LET cu == getCurrentUser(reqs[s].client)
        i == reqs[s].idea
        gate == withResourceOwner(cu, getIdeaOwnerIdAs(i))
    IN /\ reqs[s].pc = "session" /\ reqs[s].op = "submit"
       /\ reqs' = [reqs EXCEPT ![s] = Returned(reqs[s], cu, gate, <<>>)]
       /\ Rest
       /\ IF IdeaExists(i) /\ IdeaRow(i).status # "submitted"
          THEN UpdateIdea(i, SetOf(<<>>, <<>>, <<>>, <<"submitted">>))
          ELSE NoWrite

\* The route is withResourceOwner(getIdeaOwnerId, handler).  For a caller
\* with a profile the gate awaits getIdeaOwnerId, which throws; nothing
\* catches it, and the handler is never entered.
Submit(s) ==
    LET cu == getCurrentUser(reqs[s].client)
    IN Handle(s, "submit", cu, withResourceOwner(cu, getIdeaOwnerIdAs(reqs[s].idea)))

(***************************************************************************)
(* POST /api/admin/ideas/[id]/decision                                     *)
(***************************************************************************)
\* the status a decision asks for
Decided(body) == IF body.action = "approve" THEN "approved" ELSE "rejected"

\* a decision whose status update reaches the store, whatever the status of
\* the idea
Decision_Applies(s) ==
    LET cu == getCurrentUser(reqs[s].client)
        i == reqs[s].idea
        body == reqs[s].body
        resp == IF ~Passed(withAdmin(cu)) THEN withAdmin(cu)
                ELSE IF ~decisionSchema(body) THEN VALIDATION_ERROR
                ELSE Caught(from(UnawaitedClient))
    IN /\ reqs[s].pc = "session" /\ reqs[s].op = "decision"
       /\ reqs' = [reqs EXCEPT ![s] = Returned(reqs[s], cu, resp, <<>>)]
       /\ Rest
       /\ IF resp = INTERNAL_SERVER_ERROR /\ IdeaExists(i) /\ IdeaRow(i).status # Decided(body)
          THEN /\ ideas' = (ideas \ {IdeaRow(i)})
                              \cup {[IdeaRow(i) EXCEPT !.status = Decided(body)]}
               /\ UNCHANGED <<comments, notifications, ids>>
          ELSE NoWrite

\* withAdmin, then decisionSchema.parse, then the select of the idea on the
\* client that was not awaited
Decision(s) ==
    LET cu == getCurrentUser(reqs[s].client)
        resp == IF ~Passed(withAdmin(cu)) THEN withAdmin(cu)
                ELSE IF ~decisionSchema(reqs[s].body) THEN VALIDATION_ERROR
                ELSE Caught(from(UnawaitedClient))
    IN Handle(s, "decision", cu, resp)

(***************************************************************************)
(* POST /api/ideas/[id]/comment                                            *)
(***************************************************************************)
\* a comment route whose insert reaches the store for every caller that
\* passed the gate with a well formed body
Comment_Applies(s) ==
    LET cu == getCurrentUser(reqs[s].client)
        i == reqs[s].idea
        body == reqs[s].body
        ok == Passed(withAuth(cu)) /\ createCommentSchema(body) /\ IdeaExists(i)
    IN /\ reqs[s].pc = "session" /\ reqs[s].op = "comment"
       /\ reqs' = [reqs EXCEPT ![s] =
                     Returned(reqs[s], cu,
                              IF ok THEN Success(201) ELSE INTERNAL_SERVER_ERROR, <<>>)]
       /\ Rest
       /\ IF ok /\ ids.comment < MaxComments THEN InsertComment(i, cu.user, body.body)
          ELSE NoWrite

Comment(s) ==
    LET cu == getCurrentUser(reqs[s].client)
        resp == IF ~Passed(withAuth(cu)) THEN withAuth(cu)
                ELSE IF ~createCommentSchema(reqs[s].body) THEN VALIDATION_ERROR
                ELSE Caught(from(UnawaitedClient))
    IN Handle(s, "comment", cu, resp)

(***************************************************************************)
(* PUT /api/ideas/[id]: withResourceOwner(getIdeaOwnerId, handler), and    *)
(* the handler starts with canModifyIdea, which resolves the caller again. *)
(***************************************************************************)
\* the gate's getCurrentUser() and its test of the result
PutBegin(s) ==
    LET cu == getCurrentUser(reqs[s].client)
    IN /\ reqs[s].pc = "session" /\ reqs[s].op = "put"
       /\ reqs' = [reqs EXCEPT ![s] = IF Unauthenticated(cu)
                                      THEN Returned(reqs[s], cu, UNAUTHORIZED, <<>>)
                                      ELSE Running(reqs[s], cu, "owner")]
       /\ NoWrite
       /\ Rest

\* The gate has the owner of the idea (service role client) and tests it
\* against the identity it holds.  When it lets the request in, the handler
\* calls canModifyIdea, whose getCurrentUser() calls
\* createServerComponentClient(): the module variable holds a client by
\* now, and the call returns the one it holds at this moment.
PutOwner(s) ==
    LET gate == withResourceOwner(Cu(s), getIdeaOwnerIdAdmin(reqs[s].idea))
    IN /\ reqs[s].pc = "owner" /\ reqs[s].op = "put"
       /\ reqs' = [reqs EXCEPT ![s] =
                     IF Passed(gate)
                     THEN [reqs[s] EXCEPT !.client = createServerComponentClient,
                                          !.pc = "identity"]
                     ELSE [reqs[s] EXCEPT !.pc = "done", !.resp = gate]]
       /\ NoWrite
       /\ Rest

\* canModifyIdea's getCurrentUser() reads the session of the client it got
\* and the profile row of that user, as they are now.  Without a user
\* canModifyIdea returns { canModify: false } at once and the route answers
\* 403 in the same continuation; with one it goes on to select the idea.
PutIdentity(s) ==
    LET cu == getCurrentUser(reqs[s].client)
    IN /\ reqs[s].pc = "identity" /\ reqs[s].op = "put"
       /\ reqs' = [reqs EXCEPT ![s].data = << cu >>,
                               ![s].pc = IF cu.user = NoUser THEN "done" ELSE "check",
                               ![s].resp = IF cu.user = NoUser THEN FORBIDDEN
                                           ELSE reqs[s].resp]
       /\ NoWrite
       /\ Rest

\* a PUT that writes the fields of the body before it asks canModifyIdea
PutCheck_WriteFirst(s) ==
    LET b == reqs[s].body
        set == SetOf(b.title, b.description, b.tags, <<>>)
    IN /\ reqs[s].op = "put" /\ reqs[s].pc = "check"
       /\ Rest
       /\ Finish(s, IF ~canModifyIdea(reqs[s].data[1], reqs[s].idea) THEN FORBIDDEN
                    ELSE IF ~updateIdeaSchema(b) THEN VALIDATION_ERROR
                    ELSE INTERNAL_SERVER_ERROR)
       /\ IF IdeaExists(reqs[s].idea) /\ updateIdeaSchema(b)
          THEN UpdateIdea(reqs[s].idea, set)
          ELSE NoWrite

\* the rest of canModifyIdea on the identity it resolved (the select of the
\* idea goes through the service role client), then updateIdeaSchema.parse,
\* then the update on the client that was not awaited
PutCheck(s) ==
    /\ reqs[s].op = "put" /\ reqs[s].pc = "check"
    /\ Finish(s, IF ~canModifyIdea(reqs[s].data[1], reqs[s].idea) THEN FORBIDDEN
                 ELSE IF ~updateIdeaSchema(reqs[s].body) THEN VALIDATION_ERROR
                 ELSE Caught(from(UnawaitedClient)))
    /\ NoWrite
    /\ Rest

(***************************************************************************)
(* DELETE /api/ideas/[id]: every statement goes through the service role   *)
(* client.                                                                 *)
(***************************************************************************)
\* the gate's getCurrentUser() and its test of the result
DeleteBegin(s) ==
    LET cu == getCurrentUser(reqs[s].client)
    IN /\ reqs[s].pc = "session" /\ reqs[s].op = "delete"
       /\ reqs' = [reqs EXCEPT ![s] = IF Unauthenticated(cu)
                                      THEN Returned(reqs[s], cu, UNAUTHORIZED, <<>>)
                                      ELSE Running(reqs[s], cu, "owner")]
       /\ NoWrite
       /\ Rest

\* the gate has the owner of the idea and tests it against the identity it
\* holds
DeleteOwner(s) ==
    LET gate == withResourceOwner(Cu(s), getIdeaOwnerIdAdmin(reqs[s].idea))
    IN /\ reqs[s].pc = "owner" /\ reqs[s].op = "delete"
       /\ IF Passed(gate) THEN Goto(s, "fetch") ELSE Finish(s, gate)
       /\ NoWrite
       /\ Rest

\* a DELETE that removes the comments of the idea before it looks at the
\* status
DeleteFetch_CommentsFirst(s) ==
    LET sel == SelectIdeaAdmin(reqs[s].idea) IN
    /\ reqs[s].op = "delete" /\ reqs[s].pc = "fetch"
    /\ IF sel = <<>> THEN Finish(s, NOT_FOUND)
       ELSE IF sel[1].status # "draft" THEN Finish(s, FORBIDDEN)
       ELSE Goto(s, "delete")
    /\ comments' = CascadeDelete(comments, reqs[s].idea)
    /\ UNCHANGED <<ideas, notifications, ids>>
    /\ Rest

\* a DELETE that does not look at the status
DeleteFetch_AnyStatus(s) ==
    LET sel == SelectIdeaAdmin(reqs[s].idea) IN
    /\ reqs[s].op = "delete" /\ reqs[s].pc = "fetch"
    /\ IF sel = <<>> THEN Finish(s, NOT_FOUND) ELSE Goto(s, "delete")
    /\ NoWrite
    /\ Rest

DeleteFetch(s) ==
    LET sel == SelectIdeaAdmin(reqs[s].idea) IN
    /\ reqs[s].op = "delete" /\ reqs[s].pc = "fetch"
    /\ IF sel = <<>> THEN Finish(s, NOT_FOUND)
       ELSE IF sel[1].status # "draft" THEN Finish(s, FORBIDDEN)
       ELSE Goto(s, "delete")
    /\ NoWrite
    /\ Rest

\* the delete removes the comments and notifications of the idea and leaves
\* its row
DeleteRun_KeepsIdea(s) ==
    /\ reqs[s].op = "delete" /\ reqs[s].pc = "delete"
    /\ comments' = CascadeDelete(comments, reqs[s].idea)
    /\ notifications' = CascadeDelete(notifications, reqs[s].idea)
    /\ Finish(s, Success(200))
    /\ UNCHANGED <<ideas, ids>>
    /\ Rest

\* the delete removes the row of the idea alone
DeleteRun_NoCascade(s) ==
    /\ reqs[s].op = "delete" /\ reqs[s].pc = "delete"
    /\ ideas' = { r \in ideas : r.id # reqs[s].idea }
    /\ Finish(s, Success(200))
    /\ UNCHANGED <<comments, notifications, ids>>
    /\ Rest

DeleteRun(s) ==
    /\ reqs[s].op = "delete" /\ reqs[s].pc = "delete"
    /\ ideas' = { r \in ideas : r.id # reqs[s].idea }
    /\ comments' = CascadeDelete(comments, reqs[s].idea)
    /\ notifications' = CascadeDelete(notifications, reqs[s].idea)
    /\ Finish(s, Success(200))
    /\ UNCHANGED ids
    /\ Rest

(***************************************************************************)
(* GET /api/ideas                                                          *)
(***************************************************************************)
\* The query parameters, each absent (<<>>, searchParams.get gives null) or
\* <<value>>.
ListQuery(status, limit, offset, search) ==
    [status |-> status, limit |-> limit, offset |-> offset, search |-> search]

ListQueries ==
    { ListQuery(<<"draft">>, <<10>>, <<>>, <<Text(0, "b")>>),
      ListQuery(<<"submitted">>, <<10>>, <<0>>, <<Text(1, "b")>>),
      ListQuery(<<>>, <<10>>, <<>>, <<Text(0, "b")>>),
      ListQuery(<<"draft">>, <<>>, <<>>, <<Text(0, "b")>>),
      ListQuery(<<"draft">>, <<10>>, <<>>, <<>>) }

\* listIdeasQuerySchema.parse: the parameters are passed as null when absent.
\* optional() lets undefined through, not null: a null status or search is
\* not valid; a null limit is coerced to 0, below the minimum; a null offset
\* is coerced to 0.
listIdeasQuerySchema(q) ==
    /\ IsSet(q.status) /\ q.status[1] \in idea_status
    /\ IsSet(q.limit) /\ q.limit[1] >= 1 /\ q.limit[1] <= 100
    /\ IsSet(q.offset) => q.offset[1] >= 0
    /\ IsSet(q.search)

\* a list that answers a well formed query with every row of the table
ListIdeas_All(s) ==
    LET cu == getCurrentUser(reqs[s].client)
        gate == withAuth(cu)
        q == reqs[s].body
    IN /\ reqs[s].pc = "session" /\ reqs[s].op = "list"
       /\ NoWrite
       /\ Rest
       /\ reqs' = [reqs EXCEPT ![s] =
                     IF ~Passed(gate) THEN Returned(reqs[s], cu, gate, <<>>)
                     ELSE IF ~listIdeasQuerySchema(q)
                     THEN Returned(reqs[s], cu, VALIDATION_ERROR, <<>>)
                     ELSE Returned(reqs[s], cu, Success(200), SeqOf(ideas))]

\* withAuth, then listIdeasQuerySchema.parse, then the query on the client
\* that was not awaited
ListIdeas(s) ==
    LET cu == getCurrentUser(reqs[s].client)
        resp == IF ~Passed(withAuth(cu)) THEN withAuth(cu)
                ELSE IF ~listIdeasQuerySchema(reqs[s].body) THEN VALIDATION_ERROR
                ELSE Caught(from(UnawaitedClient))
    IN Handle(s, "list", cu, resp)

(***************************************************************************)
(* PATCH /api/inbox                                                        *)
(***************************************************************************)
\* a body names a set of notification ids; read is absent (<<>>) or <<bool>>
PatchBodies ==
    { [ids |-> I, read |-> r] :
        I \in { {}, {1}, {1, 2} },
        r \in { <<>>, <<FALSE>> } }

\* ids: at least one id; read: a boolean, true when absent
markAsReadSchema(b) == b.ids # {}

\* a PATCH whose update reaches the store and marks every notification the
\* body names
PatchInbox_AllNamed(s) ==
    LET cu == getCurrentUser(reqs[s].client)
        gate == withAuth(cu)
        body == reqs[s].body
        rows == { n \in notifications : n.id \in body.ids }
    IN /\ reqs[s].pc = "session" /\ reqs[s].op = "patch"
       /\ Rest
       /\ UNCHANGED <<ideas, comments, ids>>
       /\ IF ~Passed(gate)
          THEN /\ reqs' = [reqs EXCEPT ![s] = Returned(reqs[s], cu, gate, <<>>)]
               /\ UNCHANGED notifications
          ELSE IF ~markAsReadSchema(body)
          THEN /\ reqs' = [reqs EXCEPT ![s] = Returned(reqs[s], cu, VALIDATION_ERROR, <<>>)]
               /\ UNCHANGED notifications
          ELSE /\ notifications' = (notifications \ rows)
                                      \cup { [n EXCEPT !.read = TRUE] : n \in rows }
               /\ reqs' = [reqs EXCEPT ![s] = Returned(reqs[s], cu, Success(200), <<>>)]

\* withAuth, then markAsReadSchema.parse, then the update on the client that
\* was not awaited
PatchInbox(s) ==
    LET cu == getCurrentUser(reqs[s].client)
        resp == IF ~Passed(withAuth(cu)) THEN withAuth(cu)
                ELSE IF ~markAsReadSchema(reqs[s].body) THEN VALIDATION_ERROR
                ELSE Caught(from(UnawaitedClient))
    IN Handle(s, "patch", cu, resp)

(***************************************************************************)
(* GET /api/inbox, GET /api/dashboard, GET /api/admin/ideas                *)
(***************************************************************************)
\* The query parameters of GET /api/inbox, each absent (<<>>) or <<value>>.
InboxQuery(limit, offset, read, sort, order) ==
    [limit |-> limit, offset |-> offset, read |-> read, sort |-> sort, order |-> order]

InboxQueries ==
    { InboxQuery(<<>>, <<>>, <<>>, <<>>, <<>>),
      InboxQuery(<<20>>, <<0>>, <<"all">>, <<"created_at">>, <<"desc">>),
      InboxQuery(<<20>>, <<>>, <<"false">>, <<"read">>, <<>>) }

\* listNotificationsQuerySchema.parse: an absent parameter is passed as
\* null, which optional() and default() do not let through: a null limit is
\* coerced to 0, below the minimum; a null offset is coerced to 0; a null
\* read, sort or order is no member of its enum.
listNotificationsQuerySchema(q) ==
    /\ IsSet(q.limit) /\ q.limit[1] >= 1 /\ q.limit[1] <= 50
    /\ IsSet(q.offset) => q.offset[1] >= 0
    /\ IsSet(q.read) /\ q.read[1] \in {"true", "false", "all"}
    /\ IsSet(q.sort) /\ q.sort[1] \in {"created_at", "read"}
    /\ IsSet(q.order) /\ q.order[1] \in {"asc", "desc"}

\* withAuth, then listNotificationsQuerySchema.parse, then the query on the
\* client that was not awaited
GetInbox(s) ==
    LET cu == getCurrentUser(reqs[s].client)
        resp == IF ~Passed(withAuth(cu)) THEN withAuth(cu)
                ELSE IF ~listNotificationsQuerySchema(reqs[s].body) THEN VALIDATION_ERROR
                ELSE Caught(from(UnawaitedClient))
    IN Handle(s, "inbox", cu, resp)

\* withAuth, then supabase.rpc on the client that was not awaited, for an
\* admin and for any other user
GetDashboard(s) ==
    LET cu == getCurrentUser(reqs[s].client)
        resp == IF ~Passed(withAuth(cu)) THEN withAuth(cu)
                ELSE Caught(rpc(UnawaitedClient))
    IN Handle(s, "dashboard", cu, resp)

\* The query parameters of GET /api/admin/ideas.
AdminListQuery(status, limit, offset, search, sort, order) ==
    [status |-> status, limit |-> limit, offset |-> offset, search |-> search,
     sort |-> sort, order |-> order]

AdminListQueries ==
    { AdminListQuery(<<>>, <<>>, <<>>, <<>>, <<>>, <<>>),
      AdminListQuery(<<"submitted">>, <<20>>, <<0>>, <<Text(0, "b")>>,
                     <<"updated_at">>, <<"desc">>) }

\* listIdeasQuerySchema of admin/ideas/route.ts, parsed as the one of
\* GET /api/ideas: every parameter but offset must be given
adminListIdeasQuerySchema(q) ==
    /\ IsSet(q.status) /\ q.status[1] \in idea_status
    /\ IsSet(q.limit) /\ q.limit[1] >= 1 /\ q.limit[1] <= 100
    /\ IsSet(q.offset) => q.offset[1] >= 0
    /\ IsSet(q.search)
    /\ IsSet(q.sort) /\ q.sort[1] \in {"created_at", "updated_at", "title"}
    /\ IsSet(q.order) /\ q.order[1] \in {"asc", "desc"}

\* withAdmin, then the parse of the query, then the query on the client
\* that was not awaited
AdminListIdeas(s) ==
    LET cu == getCurrentUser(reqs[s].client)
        resp == IF ~Passed(withAdmin(cu)) THEN withAdmin(cu)
                ELSE IF ~adminListIdeasQuerySchema(reqs[s].body) THEN VALIDATION_ERROR
                ELSE Caught(from(UnawaitedClient))
    IN Handle(s, "adminlist", cu, resp)

\* the response has been delivered; the slot takes the next request
Return(s) ==
    /\ reqs[s].pc = "done"
    /\ reqs' = [reqs EXCEPT ![s] = Idle]
    /\ NoWrite
    /\ Rest

(***************************************************************************)
(* Statements sent to the tables by a client that holds the session of     *)
(* user u (the anon key with the user's token): they pass through the row  *)
(* level security policies and fire the triggers.                          *)
(***************************************************************************)
\* policy "Users can insert comments"
CommentInsertPolicy(u, new) == new.author_id = u

\* insert into comments (idea_id, author_id, body) as u.  The foreign keys
\* need the idea and the profile of the author.
InsertCommentAs(u, i, author, body) ==
    /\ u \in DOMAIN profiles
    /\ author \in DOMAIN profiles
    /\ IdeaExists(i)
    /\ CommentInsertPolicy(u, [idea_id |-> i, author_id |-> author, body |-> body])
    /\ InsertComment(i, author, body)
    /\ UNCHANGED <<serverComponentClientCache, detached, profiles, reqs, openai_logs, today, calls>>

\* update ideas set status = status where id = i, as u
UpdateStatusAs(u, i, status) ==
    /\ u \in DOMAIN profiles
    /\ UpdateAllowed(u, i, SetOf(<<>>, <<>>, <<>>, <<status>>))
    /\ UpdateIdea(i, SetOf(<<>>, <<>>, <<>>, <<status>>))
    /\ UNCHANGED <<serverComponentClientCache, detached, profiles, reqs, openai_logs, today, calls>>

(***************************************************************************)
(* The table of profiles.                                                  *)
(***************************************************************************)
\* the table with the row of u set to role, inserted when it has none
WithProfile(u, role) ==
    [v \in DOMAIN profiles \cup {u} |-> IF v = u THEN role ELSE profiles[v]]

\* what a statement on profiles leaves alone
ProfilesOnly ==
    UNCHANGED <<ideas, comments, notifications, ids, reqs, openai_logs, today, calls,
                serverComponentClientCache, detached>>

\* Trigger on_auth_user_created: a user who signs up gets a profile row with
\* role owner.
handle_new_user(u) ==
    /\ u \notin DOMAIN profiles
    /\ profiles' = WithProfile(u, "owner")
    /\ ProfilesOnly

\* public.create_admin_user: a new user is inserted (the trigger gives the
\* profile row), then the role of the row is set to admin
create_admin_user(u) ==
    /\ u \notin DOMAIN profiles
    /\ profiles' = WithProfile(u, "admin")
    /\ ProfilesOnly

\* policy "Users can update own profile": using (id = auth.uid()), no check
\* on the new row
ProfileUpdatePolicy(u, target) == target = u

\* update profiles set role = role where id = target, as u
UpdateProfileAs(u, target, role) ==
    /\ u \in DOMAIN profiles
    /\ target \in DOMAIN profiles
    /\ ProfileUpdatePolicy(u, target)
    /\ profiles[target] # role
    /\ profiles' = WithProfile(target, role)
    /\ ProfilesOnly

(***************************************************************************)
(* POST /api/ai/idea-helper: the assist gateway.                           *)
(***************************************************************************)
DAILY_LIMIT == 5

ideaHelperSchema(b) ==
    /\ length(b.title) >= 1 /\ length(b.title) <= 100
    /\ length(b.description) >= 1

AssistBodies ==
    { [title |-> T_abc, description |-> D_ok],
      [title |-> Text(0, "a"), description |-> D_ok] }

\* What the external service answers: APIError (the call throws), or a
\* completion whose message content is
\*   "text"   characters that are not JSON        "empty"  no content
\*   "null"   the JSON text null                  "object" a JSON object
\* An object has improvedCopy absent (<<>>) or <<string>>, and tags absent,
\* a string or an array.
APIError == [kind |-> "APIError"]
JsonObject(improvedCopy, tags) ==
    [kind |-> "object", improvedCopy |-> improvedCopy, tags |-> tags]
Completions ==
    { APIError, [kind |-> "text"], [kind |-> "empty"], [kind |-> "null"],
      JsonObject(<<>>, "array"),
      JsonObject(<<Text(0, "i")>>, "array"),
      JsonObject(<<Text(5, "i")>>, "string"),
      JsonObject(<<Text(5, "i")>>, "absent"),
      JsonObject(<<Text(5, "i")>>, "array") }

\* JSON.parse(responseContent): throws on text that is not JSON and on ''
JSON_parse(content) ==
    IF content.kind \in {"text", "empty"} THEN [ok |-> FALSE]
    ELSE [ok |-> TRUE, value |-> content]

\* !parsedResponse.improvedCopy || !Array.isArray(parsedResponse.tags)
InvalidStructure(value) ==
    \/ value.improvedCopy = <<>>
    \/ length(value.improvedCopy[1]) = 0
    \/ value.tags # "array"

\* the quota is counted over the failed calls only
CountSince_FailedOnly(u, day) ==
    LET rows == { r \in BagToSet(openai_logs) :
                    r.user_id = u /\ r.day >= day /\ r.response # "improvedCopy" }
        RECURSIVE Sum(_)
        Sum(S) == IF S = {} THEN 0
                  ELSE LET r == CHOOSE x \in S : TRUE
                       IN CopiesIn(r, openai_logs) + Sum(S \ {r})
    IN Sum(rows)

\* the quota is counted over the records of every day
CountSince_AllDays(u, day) ==
    LET rows == { r \in BagToSet(openai_logs) : r.user_id = u }
        RECURSIVE Sum(_)
        Sum(S) == IF S = {} THEN 0
                  ELSE LET r == CHOOSE x \in S : TRUE
                       IN CopiesIn(r, openai_logs) + Sum(S \ {r})
    IN Sum(rows)

\* select count(*) from openai_logs where user_id = u and created_at >= day
CountSince(u, day) ==
    LET rows == { r \in BagToSet(openai_logs) : r.user_id = u /\ r.day >= day }
        RECURSIVE Sum(_)
        Sum(S) == IF S = {} THEN 0
                  ELSE LET r == CHOOSE x \in S : TRUE
                       IN CopiesIn(r, openai_logs) + Sum(S \ {r})
    IN Sum(rows)

\* insert into openai_logs (user_id, prompt, response); created_at = now()
InsertLog(u, response) ==
    openai_logs' = openai_logs (+) SetToBag({ [user_id |-> u, day |-> today,
                                             response |-> response] })

\* the limit check passes at the limit itself
OverLimit_Above(count) == count > DAILY_LIMIT

\* count !== null && count >= DAILY_LIMIT
OverLimit(count) == count >= DAILY_LIMIT

AssistFrame == UNCHANGED <<profiles, ideas, comments, notifications, ids>>

\* the gate of the route: withAuth
AssistBegin(s) ==
    LET cu == getCurrentUser(reqs[s].client)
        gate == withAuth(cu)
    IN /\ reqs[s].pc = "session" /\ reqs[s].op = "assist"
       /\ AssistFrame
       /\ UNCHANGED <<serverComponentClientCache, detached, openai_logs, today, calls>>
       /\ reqs' = [reqs EXCEPT ![s] = IF ~Passed(gate)
                                      THEN Returned(reqs[s], cu, gate, <<>>)
                                      ELSE Running(reqs[s], cu, "parse")]

\* The handler has the body: ideaHelperSchema.parse, then the reading of
\* the clock, today = new Date() set to midnight.  The count query that
\* uses it reaches the store a round trip later.
AssistParse(s) ==
    /\ reqs[s].pc = "parse" /\ reqs[s].op = "assist"
    /\ AssistFrame
    /\ UNCHANGED <<serverComponentClientCache, detached, openai_logs, today, calls>>
    /\ IF ~ideaHelperSchema(reqs[s].body)
       THEN Finish(s, VALIDATION_ERROR)
       ELSE /\ ~OverLimit(CountSince(reqs[s].user, today)) => calls < MaxCalls
            /\ reqs' = [reqs EXCEPT ![s].pc = "count", ![s].data = <<[today |-> today]>>]

\* the count query of the rate limit check, over the records since the
\* midnight the request read, and the test of the count
AssistCount(s) ==
    LET count == CountSince(reqs[s].user, reqs[s].data[1].today) IN
    /\ reqs[s].op = "assist" /\ reqs[s].pc = "count"
    /\ AssistFrame
    /\ UNCHANGED <<serverComponentClientCache, detached, openai_logs, today, calls>>
    /\ IF OverLimit(count)
       THEN Finish(s, RATE_LIMITED)
       ELSE reqs' = [reqs EXCEPT ![s].pc = "call", ![s].data = <<[count |-> count]>>]

\* the call of the external service and the checks of its answer, up to the
\* next statement that reaches the store
AssistCall(s, completion) ==
    LET parsedResponse == JSON_parse(completion) IN
    /\ reqs[s].op = "assist" /\ reqs[s].pc = "call"
    /\ calls < MaxCalls
    /\ calls' = calls + 1
    /\ AssistFrame
    /\ UNCHANGED <<serverComponentClientCache, detached, openai_logs, today>>
    /\ LET to == IF completion = APIError THEN <<"done", AI_SERVICE_ERROR>>
                 ELSE IF ~parsedResponse.ok THEN <<"logparse", NoResponse>>
                 \* reading a property of null throws a TypeError
                 ELSE IF parsedResponse.value.kind = "null"
                      THEN <<"done", INTERNAL_SERVER_ERROR>>
                 ELSE IF InvalidStructure(parsedResponse.value)
                      THEN <<"logstructure", NoResponse>>
                 ELSE <<"log", NoResponse>>
       IN reqs' = [reqs EXCEPT ![s].pc = to[1], ![s].resp = to[2],
                               ![s].data = <<[count |-> reqs[s].data[1].count,
                                              completion |-> completion]>>]

\* "Log the failed attempt", then 500
AssistLogFailed(s) ==
    /\ reqs[s].op = "assist" /\ reqs[s].pc \in {"logparse", "logstructure"}
    /\ AssistFrame
    /\ UNCHANGED <<serverComponentClientCache, detached, today, calls>>
    /\ InsertLog(reqs[s].user, IF reqs[s].pc = "logparse"
                               THEN "Failed to parse response"
                               ELSE "Invalid response structure")
    /\ Finish(s, AI_SERVICE_ERROR)

\* the usage computed from count, without the call being answered
AssistLog_UsedIsCount(s) ==
    LET count == reqs[s].data[1].count IN
    /\ reqs[s].op = "assist" /\ reqs[s].pc = "log"
    /\ AssistFrame
    /\ UNCHANGED <<serverComponentClientCache, detached, today, calls>>
    /\ InsertLog(reqs[s].user, "improvedCopy")
    /\ reqs' = [reqs EXCEPT ![s].pc = "done", ![s].resp = Success(200),
                            ![s].data = <<[used |-> count, limit |-> DAILY_LIMIT,
                                           remaining |-> DAILY_LIMIT - count]>>]

\* "Log the successful API call", then the improved copy with the usage
AssistLog(s) ==
    LET count == reqs[s].data[1].count IN
    /\ reqs[s].op = "assist" /\ reqs[s].pc = "log"
    /\ AssistFrame
    /\ UNCHANGED <<serverComponentClientCache, detached, today, calls>>
    /\ InsertLog(reqs[s].user, "improvedCopy")
    /\ reqs' = [reqs EXCEPT ![s].pc = "done", ![s].resp = Success(200),
                            ![s].data = <<[used |-> count + 1, limit |-> DAILY_LIMIT,
                                           remaining |-> DAILY_LIMIT - (count + 1)]>>]

\* the insert of "Log the successful API call" fails: logError is written to
\* the console ("Continue despite logging error") and the improved copy is
\* returned with the usage all the same
AssistLogInsertFailed(s) ==
    LET count == reqs[s].data[1].count IN
    /\ reqs[s].op = "assist" /\ reqs[s].pc = "log"
    /\ AssistFrame
    /\ UNCHANGED <<serverComponentClientCache, detached, openai_logs, today, calls>>
    /\ reqs' = [reqs EXCEPT ![s].pc = "done", ![s].resp = Success(200),
                            ![s].data = <<[used |-> count + 1, limit |-> DAILY_LIMIT,
                                           remaining |-> DAILY_LIMIT - (count + 1)]>>]

\* midnight passes
NewDay ==
    /\ today < MaxDay
    /\ today' = today + 1
    /\ UNCHANGED <<serverComponentClientCache, detached, profiles, ideas, comments, notifications, ids, reqs, openai_logs, calls>>

\* the steps of slot s on the assist gateway
StepA(s, SS, AB, CS) ==
    \/ \E sess \in SS, b \in AB : Receive(s, "assist", sess, 0, b)
    \/ BuildClient(s)
    \/ AssistBegin(s)
    \/ AssistParse(s)
    \/ AssistCount(s)
    \/ \E c \in CS : AssistCall(s, c)
    \/ AssistLogFailed(s)
    \/ AssistLog(s)
    \/ Return(s)

(***************************************************************************)
(* The stores the requests find.  No route can insert an idea or a         *)
(* comment (see CreateIdea, Comment), so the rows a deployment holds were  *)
(* written through the tables, which hold whatever the policies let        *)
(* through: at most one idea, of ann or of bob, in any status, its title   *)
(* three characters long before or after trimming; at most one comment on  *)
(* it, by any user with a profile; and the notifications the triggers      *)
(* wrote for the last status change and for the comment.                   *)
(***************************************************************************)
SeedIdea(o, t, st) ==
    [id |-> 1, owner_id |-> o, title |-> t, description |-> D_ok, tags |-> <<>>,
     status |-> st]

SeedIdeas ==
    {{}} \cup { {SeedIdea(o, t, st)} :
                  o \in {"ann", "bob"},
                  t \in {T_abc, T_pad},
                  st \in idea_status }

\* the status an idea in status st had before
Before(st) == IF st = "submitted" THEN "draft" ELSE "submitted"

InitStore(P) ==
    /\ profiles \in P
    /\ ideas \in SeedIdeas
    /\ comments \in
         {{}} \cup { {[id |-> 1, idea_id |-> r.id, author_id |-> a, body |-> Text(3, "c")]} :
                       r \in ideas, a \in Members }
    /\ LET moved == IF ideas = {} \/ \A r \in ideas : r.status = "draft" THEN <<>>
                    ELSE LET r == CHOOSE x \in ideas : TRUE
                         IN handle_idea_status_change([r EXCEPT !.status = Before(r.status)], r)
           said == IF comments = {} THEN <<>>
                   ELSE handle_new_comment(CHOOSE c \in comments : TRUE)
       IN /\ notifications = Numbered(moved \o said, 0)
          /\ ids = [idea |-> Cardinality(ideas), comment |-> Cardinality(comments),
                    notification |-> Len(moved \o said)]
    /\ reqs = [s \in Slots |-> Idle]
    /\ openai_logs = EmptyBag /\ today = 0 /\ calls = 0
    /\ serverComponentClientCache = NoClient
    /\ detached = {}

\* bob is the admin
OneAdmin == { [u \in Members |-> IF u = "bob" THEN "admin" ELSE "owner"] }

(***************************************************************************)
(* Specifications.                                                         *)
(***************************************************************************)
\* the steps of slot s, its requests drawn from the given sessions and bodies
Step(s, SS, CB, PB, DB, MB) ==
    \/ \E sess \in SS, b \in CB : Receive(s, "create", sess, 0, b)
    \/ \E sess \in SS, i \in IdeaIds : Receive(s, "get", sess, i, NoBody)
    \/ \E sess \in SS, i \in IdeaIds : Receive(s, "submit", sess, i, NoBody)
    \/ \E sess \in SS, i \in IdeaIds, b \in DB : Receive(s, "decision", sess, i, b)
    \/ \E sess \in SS, i \in IdeaIds, b \in MB : Receive(s, "comment", sess, i, b)
    \/ \E sess \in SS, i \in IdeaIds, b \in PB : Receive(s, "put", sess, i, b)
    \/ \E sess \in SS, i \in IdeaIds : Receive(s, "delete", sess, i, NoBody)
    \/ \E sess \in SS, q \in ListQueries : Receive(s, "list", sess, 0, q)
    \/ \E sess \in SS, b \in PatchBodies : Receive(s, "patch", sess, 0, b)
    \/ BuildClient(s)
    \/ CreateIdea(s)
    \/ GetIdea(s)
    \/ Submit(s)
    \/ Decision(s)
    \/ Comment(s)
    \/ PutBegin(s)
    \/ PutOwner(s)
    \/ PutIdentity(s)
    \/ PutCheck(s)
    \/ DeleteBegin(s)
    \/ DeleteOwner(s)
    \/ DeleteFetch(s)
    \/ DeleteRun(s)
    \/ ListIdeas(s)
    \/ PatchInbox(s)
    \/ Return(s)

\* the steps of slot s on GET /api/inbox, GET /api/dashboard and
\* GET /api/admin/ideas; the slot builds its client and returns by Step
StepG(s, SS) ==
    \/ \E sess \in SS, q \in InboxQueries : Receive(s, "inbox", sess, 0, q)
    \/ \E sess \in SS : Receive(s, "dashboard", sess, 0, NoBody)
    \/ \E sess \in SS, q \in AdminListQueries : Receive(s, "adminlist", sess, 0, q)
    \/ GetInbox(s)
    \/ GetDashboard(s)
    \/ AdminListIdeas(s)

\* the calls of createServerComponentClient() made outside the gates, with
\* the cookies of CS for GET /auth/callback and of RS for refreshSession()
StepD(CS, RS) ==
    \/ \E sess \in CS : AuthCallback(sess)
    \/ \E sess \in RS : refreshSession(sess)
    \/ \E sess \in CS \cup RS : DetachedBuild(sess)

\* the statements that change the table of profiles between the steps of
\* the requests: ned signs up, dan changes the role of his own row
StepP ==
    \/ handle_new_user("ned")
    \/ \E role \in user_role : UpdateProfileAs("dan", "dan", role)

\* Spec: the routes of the ideas, the list and the PATCH of the inbox, one
\* request of any caller at a time, in a server process that is restarted
\* now and then, while the table of profiles changes.  Every caller has
\* requests here, so the variable comes to hold the client of each of them;
\* the calls outside the gates are taken in SpecE, SpecK and SpecAF.
InitS == InitStore(OneAdmin)

Next ==
    \/ Step("r1", Sessions, CreateBodies, PutBodies, DecisionBodies, CommentBodies)
    \/ Restart
    \/ StepP

Spec == InitS /\ [][Next]_vars

\* SpecC: the steps of two requests of ann and bob interleaved; the bodies
\* are well formed
NextC ==
    \/ \E s \in Slots :
        \/ \E sess \in {"ann", "bob"}, i \in IdeaIds : Receive(s, "submit", sess, i, NoBody)
        \/ \E sess \in {"ann", "bob"}, i \in IdeaIds,
              b \in { d \in DecisionBodies : decisionSchema(d) /\ length(d.comment) = 3 } :
                Receive(s, "decision", sess, i, b)
        \/ \E sess \in {"ann", "bob"}, i \in IdeaIds,
              b \in { p \in PutBodies : updateIdeaSchema(p) } : Receive(s, "put", sess, i, b)
        \/ \E sess \in {"ann", "bob"}, i \in IdeaIds : Receive(s, "delete", sess, i, NoBody)
        \/ BuildClient(s)
        \/ Submit(s)
        \/ Decision(s)
        \/ PutBegin(s)
        \/ PutOwner(s)
        \/ PutIdentity(s)
        \/ PutCheck(s)
        \/ DeleteBegin(s)
        \/ DeleteOwner(s)
        \/ DeleteFetch(s)
        \/ DeleteRun(s)
        \/ Return(s)
    \/ Restart

SpecC == InitS /\ [][NextC]_vars

\* SpecE: every entry point of the program for ann and callers without
\* session: the routes of Spec, the three GET routes of StepG, the assist
\* gateway, GET /auth/callback and refreshSession()
NextE ==
    \/ Step("r1", {"ann", NoSession},
            CreateBodies, PutBodies, DecisionBodies, CommentBodies)
    \/ StepG("r1", {"ann", NoSession})
    \/ StepD({NoSession}, {NoSession})
    \/ Restart
    \/ StepA("r1", {"ann", NoSession}, AssistBodies,
             { [kind |-> "text"], JsonObject(<<Text(5, "i")>>, "array") })

SpecE == InitS /\ [][NextE]_vars

\* SpecK: one server process serves two requests at a time, of ann, of bob
\* and of callers without session, on the routes that read one idea or
\* change it, and calls outside the gates without session; the bodies are
\* well formed
NextK ==
    \/ \E s \in Slots :
        \/ \E sess \in {"ann", "bob", NoSession}, i \in IdeaIds :
              Receive(s, "get", sess, i, NoBody)
        \/ \E sess \in {"ann", "bob", NoSession}, i \in IdeaIds,
              b \in { p \in PutBodies : updateIdeaSchema(p) } : Receive(s, "put", sess, i, b)
        \/ BuildClient(s)
        \/ GetIdea(s)
        \/ PutBegin(s)
        \/ PutOwner(s)
        \/ PutIdentity(s)
        \/ PutCheck(s)
        \/ Return(s)
    \/ StepD({NoSession}, {NoSession})
    \/ Restart

SpecK == InitS /\ [][NextK]_vars

\* SpecT: the statements that reach the tables with the session of ann, bob
\* or dan, while dan changes the role of his own row and eve is added as
\* an admin
InitT == InitStore(OneAdmin)

NextT ==
    \/ \E u \in {"ann", "bob", "dan"}, i \in IdeaIds, b \in {Text(1, "y"), Text(3, "x")} :
          InsertCommentAs(u, i, u, b)
    \/ \E u \in {"ann", "bob", "dan"}, i \in IdeaIds, st \in idea_status :
          UpdateStatusAs(u, i, st)
    \/ \E role \in user_role : UpdateProfileAs("dan", "dan", role)
    \/ create_admin_user("eve")

SpecT == InitT /\ [][NextT]_vars

\* SpecA: the assist requests of ann and of a caller without session, one at
\* a time, over the days 0..MaxDay
NextA ==
    \/ StepA("r1", {"ann", NoSession}, AssistBodies, Completions)
    \/ NewDay
    \/ Restart

SpecA == Init /\ [][NextA]_vars

\* SpecAF: the assist requests of ann, one at a time, over the days
\* 0..MaxDay; the service answers with the expected object, with text that
\* is not JSON, or fails with an API error, and the insert of the usage
\* record of a successful call may fail; a call outside the gates without
\* session may have left its client in the process
NextAF ==
    \/ StepA("r1", {"ann"}, { b \in AssistBodies : ideaHelperSchema(b) },
             { APIError, [kind |-> "text"], JsonObject(<<Text(5, "i")>>, "array") })
    \/ AssistLogInsertFailed("r1")
    \/ StepD({NoSession}, {NoSession})
    \/ NewDay

SpecAF == Init /\ [][NextAF]_vars

\* SpecAC: two concurrent assist requests of ann over the days 0..MaxDay;
\* the service answers with the expected object or with text that is not
\* JSON
NextAC ==
    \/ \E s \in Slots :
          StepA(s, {"ann"}, { b \in AssistBodies : ideaHelperSchema(b) },
                { JsonObject(<<Text(5, "i")>>, "array"), [kind |-> "text"] })
    \/ NewDay

SpecAC == Init /\ [][NextAC]_vars

(***************************************************************************)
(* Vocabulary of the properties.                                           *)
(***************************************************************************)
StatusOf(i) == IF IdeaExists(i) THEN IdeaRow(i).status ELSE "absent"
OwnerOf(i) == IF IdeaExists(i) THEN IdeaRow(i).owner_id ELSE NoUser

\* the edges of the lifecycle table
Edges == { <<"draft", "submitted">>, <<"rejected", "submitted">>,
           <<"submitted", "approved">>, <<"submitted", "rejected">> }

\* slot s takes this step, and in it works on request op
Acts(s, op) == reqs'[s] # reqs[s] /\ reqs'[s].op = op

\* slot s returns its response in this step
Completes(s, op) == Acts(s, op) /\ reqs'[s].pc = "done"

\* slot s holds the response of a request op
Done(s, op) == reqs[s].pc = "done" /\ reqs[s].op = op

\* the request of slot s is made by a user with a profile row
HasProfile(s) == reqs'[s].role \in user_role

\* idea i is in the table after the step
ExistsAfter(i) == \E r \in ideas' : r.id = i

\* the status of idea i after the step
StatusAfter(i) ==
    IF ExistsAfter(i) THEN (CHOOSE r \in ideas' : r.id = i).status ELSE "absent"

StoreUnchanged == /\ ideas' = ideas /\ comments' = comments
                  /\ notifications' = notifications

\* the rows a step adds
NewComments == comments' \ comments
NewNotifications == notifications' \ notifications
Recipients(N) == { n.user_id : n \in N }
To(N, u) == { n \in N : n.user_id = u }

(***************************************************************************)
(* C1.  With requests run one at a time, the status of an idea changes     *)
(* only along draft->submitted, rejected->submitted, submitted->approved   *)
(* and submitted->rejected; a submit that finds the idea submitted or      *)
(* approved, and a decision that finds it draft, approved or rejected,     *)
(* returns Invalid Status (400) and leaves the ideas unchanged.  (The      *)
(* attempts are those of callers the route admits, with a well formed      *)
(* body: the owner's submit, an admin's decision.)                         *)
(***************************************************************************)
C1_LegalTransitionsOnly ==
    [][ /\ \A i \in IdeaIds :
             (IdeaExists(i) /\ IdeaExists(i)' /\ StatusOf(i)' # StatusOf(i))
                => <<StatusOf(i), StatusOf(i)'>> \in Edges
        /\ \A s \in Slots :
             ( /\ Completes(s, "submit")
               /\ reqs'[s].user = OwnerOf(reqs'[s].idea)
               /\ StatusOf(reqs'[s].idea) \in {"submitted", "approved"} )
                => (reqs'[s].resp = INVALID_STATUS /\ ideas' = ideas)
        /\ \A s \in Slots :
             ( /\ Completes(s, "decision")
               /\ reqs'[s].role = "admin"
               /\ decisionSchema(reqs'[s].body)
               /\ StatusOf(reqs'[s].idea) \in {"draft", "approved", "rejected"} )
                => (reqs'[s].resp = INVALID_STATUS /\ ideas' = ideas)
      ]_vars

(***************************************************************************)
(* C2.  Once the status of an idea is approved, no step of a submit, a     *)
(* decision or a PUT, run after or interleaved with others, changes that   *)
(* status.                                                                 *)
(***************************************************************************)
C2_ApprovedTerminal ==
    [][ \A i \in IdeaIds : StatusOf(i) = "approved" => StatusOf(i)' = "approved" ]_vars

\* an admin's decision to reject an approved idea has been handled while a
\* submit of its owner has returned as well; the idea is still approved
C2_Witness ==
    \E s, t \in Slots :
        /\ Done(s, "decision") /\ reqs[s].role = "admin"
        /\ reqs[s].body.action = "reject"
        /\ reqs[s].resp = INTERNAL_SERVER_ERROR
        /\ Done(t, "submit") /\ reqs[t].idea = reqs[s].idea
        /\ reqs[t].user = OwnerOf(reqs[t].idea)
        /\ StatusOf(reqs[s].idea) = "approved"

(***************************************************************************)
(* C3.  A PUT on an existing idea by a user with a profile who is not the  *)
(* owner of the idea returns 403 and changes no idea, whatever the status  *)
(* of the idea and also when the caller is an admin.                       *)
(***************************************************************************)
C3_NonOwnerPutForbidden ==
    [][ \A s \in Slots :
          ( /\ Completes(s, "put") /\ HasProfile(s)
            /\ IdeaExists(reqs'[s].idea)
            /\ OwnerOf(reqs'[s].idea) # reqs'[s].user )
             => (reqs'[s].resp.status = 403 /\ ideas' = ideas) ]_vars

(***************************************************************************)
(* C4.  A DELETE of an existing idea by a user with a profile returns      *)
(* success and removes the idea exactly when the caller is the owner and   *)
(* the status is draft; in every other case it returns 403 and the idea    *)
(* still exists.                                                           *)
(***************************************************************************)
C4_DeleteIffOwnerAndDraft ==
    [][ \A s \in Slots :
          ( /\ Completes(s, "delete") /\ HasProfile(s)
            /\ IdeaExists(reqs'[s].idea) )
             => IF OwnerOf(reqs'[s].idea) = reqs'[s].user /\ StatusOf(reqs'[s].idea) = "draft"
                THEN reqs'[s].resp = Success(200) /\ ~ExistsAfter(reqs'[s].idea)
                ELSE reqs'[s].resp.status = 403 /\ ExistsAfter(reqs'[s].idea) ]_vars

(***************************************************************************)
(* C5.  A submit request of a user who is not the owner of the idea (an    *)
(* admin or a stranger) changes no idea: the status stays what it was.     *)
(***************************************************************************)
C5_OnlyOwnerSubmits ==
    [][ \A s \in Slots :
          ( /\ Completes(s, "submit")
            /\ IdeaExists(reqs'[s].idea)
            /\ OwnerOf(reqs'[s].idea) # reqs'[s].user )
             => ideas' = ideas ]_vars

\* the submit of admin bob for the draft of ann has ended; the idea is a
\* draft still
C5_Witness ==
    \E s \in Slots :
        /\ Done(s, "submit") /\ reqs[s].user = "bob" /\ reqs[s].role = "admin"
        /\ OwnerOf(reqs[s].idea) = "ann"
        /\ StatusOf(reqs[s].idea) = "draft"
        /\ reqs[s].resp = Uncaught(TypeError)

(***************************************************************************)
(* C6.  A PUT of the owner on their own idea whose status is submitted or  *)
(* approved returns 403 and leaves the ideas unchanged; the fields of an   *)
(* idea change through its owner's PUT only while the status is draft or   *)
(* rejected.                                                               *)
(***************************************************************************)
C6_OwnerPutOnlyDraftOrRejected ==
    [][ \A s \in Slots :
          ( /\ Completes(s, "put") /\ HasProfile(s)
            /\ IdeaExists(reqs'[s].idea)
            /\ OwnerOf(reqs'[s].idea) = reqs'[s].user
            /\ StatusOf(reqs'[s].idea) \in {"submitted", "approved"} )
             => (reqs'[s].resp.status = 403 /\ ideas' = ideas) ]_vars

(***************************************************************************)
(* C7.  A decision request that carries valid credentials of a user who    *)
(* is not an admin (role owner, or no profile row) returns 403 and changes *)
(* no idea, comment or notification.                                       *)
(***************************************************************************)
C7_NonAdminDecisionForbidden ==
    [][ \A s \in Slots :
          ( /\ Completes(s, "decision")
            /\ reqs'[s].sess \in Users
            /\ RoleOf(reqs'[s].sess) # "admin" )
             => (reqs'[s].resp.status = 403 /\ StoreUnchanged) ]_vars

(***************************************************************************)
(* C8.  A comment request on an existing idea by a user with a profile who *)
(* is neither the owner of the idea nor an admin returns 403 and inserts   *)
(* nothing; and no step adds a comment to the table whose author is        *)
(* neither the owner of its idea nor an admin.                             *)
(***************************************************************************)
C8_CommentOnlyOwnerOrAdmin ==
    /\ [][ \A s \in Slots :
             ( /\ Completes(s, "comment") /\ HasProfile(s)
               /\ IdeaExists(reqs'[s].idea)
               /\ OwnerOf(reqs'[s].idea) # reqs'[s].user
               /\ reqs'[s].role # "admin" )
                => (reqs'[s].resp.status = 403 /\ StoreUnchanged) ]_vars
    /\ [][ \A c \in NewComments :
              c.author_id = OwnerOf(c.idea_id) \/ IsAdminRow(c.author_id) ]_vars

(***************************************************************************)
(* C9.  A GET of an existing idea by a user with a profile returns the row *)
(* of the idea exactly when the viewer is its owner or an admin; any other *)
(* viewer gets 403 and no row.                                             *)
(***************************************************************************)
C9_ViewOnlyOwnerOrAdmin ==
    [][ \A s \in Slots :
          ( /\ Completes(s, "get") /\ HasProfile(s)
            /\ IdeaExists(reqs'[s].idea) )
             => IF OwnerOf(reqs'[s].idea) = reqs'[s].user \/ reqs'[s].role = "admin"
                THEN reqs'[s].resp = Success(200) /\ reqs'[s].data = <<IdeaRow(reqs'[s].idea)>>
                ELSE reqs'[s].resp.status = 403 /\ reqs'[s].data = <<>> ]_vars

(***************************************************************************)
(* C10.  Every step that changes the status of an idea creates exactly one *)
(* notification: type status_change, addressed to the owner of the idea,   *)
(* with meta old_status / new_status equal to the status before and after; *)
(* no other user is notified, and a status_change notification is created  *)
(* by no other step.  (The steps are the status updates that reach the     *)
(* ideas table; the trigger fires whoever sends them.)                     *)
(***************************************************************************)
C10_StatusChangeNotifiesOwnerOnce ==
    [][ /\ \A i \in IdeaIds :
             (IdeaExists(i) /\ ExistsAfter(i) /\ StatusOf(i)' # StatusOf(i))
                => NewNotifications =
                     { [id |-> ids.notification + 1, user_id |-> OwnerOf(i), idea_id |-> i,
                        type |-> "status_change",
                        meta |-> [old_status |-> StatusOf(i), new_status |-> StatusOf(i)'],
                        read |-> FALSE] }
        /\ \A n \in NewNotifications :
             n.type = "status_change"
                => \E i \in IdeaIds :
                      /\ n.idea_id = i /\ IdeaExists(i) /\ ExistsAfter(i)
                      /\ StatusOf(i)' # StatusOf(i)
      ]_vars

\* the rejected idea of ann was set to submitted again, then approved: ann
\* holds the status_change notifications of both updates, bob holds none
C10_Witness ==
    /\ \E n, m \in notifications :
          /\ n.type = "status_change" /\ n.user_id = "ann"
          /\ n.meta = [old_status |-> "rejected", new_status |-> "submitted"]
          /\ m.type = "status_change" /\ m.user_id = "ann" /\ m.idea_id = n.idea_id
          /\ m.meta = [old_status |-> "submitted", new_status |-> "approved"]
          /\ OwnerOf(n.idea_id) = "ann" /\ StatusOf(n.idea_id) = "approved"
    /\ \A n \in notifications : n.type = "status_change" => n.user_id # "bob"

(***************************************************************************)
(* C11.  Rule 1 of the comment fan-out: a step that inserts a comment      *)
(* whose author is not the owner of the idea gives the owner exactly one   *)
(* notification, of type admin_comment when the author is an admin and     *)
(* user_comment otherwise, naming the comment; a comment by the owner      *)
(* gives the owner none.                                                   *)
(***************************************************************************)
C11_OwnerNotifiedOfForeignComment ==
    [][ \A c \in NewComments :
          LET owner == OwnerOf(c.idea_id)
              got == To(NewNotifications, owner)
          IN IF c.author_id # owner
             THEN /\ Cardinality(got) = 1
                  /\ \A n \in got :
                        /\ n.type = (IF RoleOf(c.author_id) = "admin"
                                     THEN "admin_comment" ELSE "user_comment")
                        /\ n.idea_id = c.idea_id
                        /\ n.meta = [comment_id |-> c.id, author_id |-> c.author_id]
             ELSE got = {}
      ]_vars

(***************************************************************************)
(* C12.  Rule 2 of the comment fan-out: a step that inserts a comment      *)
(* whose author is not an admin gives every admin exactly one notification *)
(* of type new_comment and gives new_comment to nobody else; a comment by  *)
(* an admin creates no new_comment notification.                           *)
(***************************************************************************)
C12_AdminsNotifiedOfUserComment ==
    [][ \A c \in NewComments :
          LET bc == { n \in NewNotifications : n.type = "new_comment" }
          IN IF RoleOf(c.author_id) # "admin"
             THEN /\ \A a \in Admins : Cardinality(To(bc, a)) = 1
                  /\ Recipients(bc) = Admins
                  /\ \A n \in bc :
                        /\ n.idea_id = c.idea_id
                        /\ n.meta = [comment_id |-> c.id, author_id |-> c.author_id]
             ELSE bc = {}
      ]_vars

\* with bob and dan both admins, ann commented on her idea and bob and dan
\* each hold a new_comment notification of it
C12_Witness ==
    /\ Admins = {"bob", "dan"}
    /\ \E c \in comments :
          /\ c.author_id = "ann" /\ c.body = Text(1, "y")
          /\ \A a \in Admins :
                \E n \in notifications :
                    /\ n.user_id = a /\ n.type = "new_comment"
                    /\ n.meta.comment_id = c.id

(***************************************************************************)
(* C13.  No step creates two notifications for the same user, and the      *)
(* users notified by a step are exactly the fan-out set of its event: the  *)
(* owner for a status change; for a comment the owner when the author is   *)
(* not the owner, together with all admins when the author is not an       *)
(* admin.                                                                  *)
(***************************************************************************)
C13_OneNotificationPerRecipient ==
    [][ /\ \A u \in Users : Cardinality(To(NewNotifications, u)) <= 1
        /\ \A c \in NewComments :
              Recipients(NewNotifications) =
                 (IF c.author_id # OwnerOf(c.idea_id) THEN {OwnerOf(c.idea_id)} ELSE {})
                 \cup (IF RoleOf(c.author_id) # "admin" THEN Admins ELSE {})
        /\ \A i \in IdeaIds :
              (IdeaExists(i) /\ ExistsAfter(i) /\ StatusOf(i)' # StatusOf(i))
                 => Recipients(NewNotifications) = {OwnerOf(i)}
      ]_vars

(***************************************************************************)
(* C14.  No step that inserts a comment creates a notification for the     *)
(* author of that comment.                                                 *)
(***************************************************************************)
C14_AuthorNotNotified ==
    [][ \A c \in NewComments :
          \A n \in NewNotifications : n.user_id # c.author_id ]_vars

\* ann commented on her own idea: the comment was announced to admin bob
\* and ann holds no notification of it
C14_Witness ==
    \E c \in comments :
        /\ c.author_id = "ann" /\ OwnerOf(c.idea_id) = "ann" /\ c.body = Text(1, "y")
        /\ \E n \in notifications :
              /\ n.user_id = "bob" /\ n.type = "new_comment"
              /\ n.meta.comment_id = c.id
        /\ \A n \in To(notifications, "ann") : n.type = "status_change"

\* the decision of an admin on a submitted idea, with a well formed body,
\* returns in this step
DecisionOfSubmitted(s) ==
    /\ Completes(s, "decision")
    /\ reqs'[s].role = "admin"
    /\ decisionSchema(reqs'[s].body)
    /\ StatusOf(reqs'[s].idea) = "submitted"

(***************************************************************************)
(* C16.  A decision that returns without a store failure has moved the     *)
(* idea to the status it asked for and has inserted exactly one comment on *)
(* the idea, authored by the deciding admin and carrying the comment text  *)
(* of the request; a decision whose comment text is shorter than 3 or      *)
(* longer than 1000 characters answers 400 Validation Error and changes    *)
(* nothing.                                                                *)
(***************************************************************************)
C16_DecisionPairsStatusWithComment ==
    [][ /\ \A s \in Slots :
             (DecisionOfSubmitted(s) /\ reqs'[s].resp # DATABASE_ERROR)
                => /\ StatusAfter(reqs'[s].idea) = Decided(reqs'[s].body)
                   /\ NewComments = { [id |-> ids.comment + 1, idea_id |-> reqs'[s].idea,
                                        author_id |-> reqs'[s].user,
                                        body |-> reqs'[s].body.comment] }
        /\ \A s \in Slots :
             ( /\ Completes(s, "decision")
               /\ reqs'[s].role = "admin"
               /\ \/ length(reqs'[s].body.comment) < 3
                  \/ length(reqs'[s].body.comment) > 1000 )
                => (reqs'[s].resp = VALIDATION_ERROR /\ StoreUnchanged)
      ]_vars

(***************************************************************************)
(* C17.  The submit of the owner for an idea that is draft or rejected     *)
(* answers 400 Validation Error and leaves the ideas unchanged when the    *)
(* title has fewer than 3 characters after trimming; otherwise it answers  *)
(* 200 and the status of the idea is submitted.                            *)
(***************************************************************************)
C17_SubmitNeedsTrimmedTitle ==
    [][ \A s \in Slots :
          LET i == reqs'[s].idea IN
          ( /\ Completes(s, "submit")
            /\ reqs'[s].user = OwnerOf(i)
            /\ StatusOf(i) \in {"draft", "rejected"} )
             => IF length(trim(IdeaRow(i).title)) < 3
                THEN reqs'[s].resp = VALIDATION_ERROR /\ ideas' = ideas
                ELSE reqs'[s].resp = Success(200) /\ StatusAfter(i) = "submitted"
      ]_vars

(***************************************************************************)
(* Vocabulary of the assist properties.                                    *)
(***************************************************************************)
\* the rows of openai_logs of user u created on day d or later
RecordsSince(u, d) ==
    LET rows == { r \in DOMAIN openai_logs : r.user_id = u /\ r.day >= d }
    IN BagCardinality([ r \in rows |-> openai_logs[r] ])

\* the failed rows among them
FailedSince(u, d) ==
    LET rows == { r \in DOMAIN openai_logs :
                    r.user_id = u /\ r.day >= d /\ r.response # "improvedCopy" }
    IN BagCardinality([ r \in rows |-> openai_logs[r] ])

AllRecords == BagCardinality(openai_logs)

(***************************************************************************)
(* C18.  With the assist requests of a user handled one at a time: a       *)
(* request whose rate limit check finds DAILY_LIMIT or more records of the *)
(* user since the midnight it read answers 429, the external service is   *)
(* not called and no record is added; the service is called only for a     *)
(* user below the limit, and a user never has more than DAILY_LIMIT        *)
(* records since the start of the day.                                     *)
(***************************************************************************)
C18_QuotaEnforcedSequentially ==
    /\ [][ /\ \A s \in Slots :
               ( /\ reqs[s].op = "assist" /\ reqs[s].pc = "count" /\ reqs'[s] # reqs[s]
                 /\ RecordsSince(reqs[s].user, reqs[s].data[1].today) >= DAILY_LIMIT )
                  => /\ reqs'[s].pc = "done" /\ reqs'[s].resp = RATE_LIMITED
                     /\ calls' = calls /\ openai_logs' = openai_logs
           /\ \A s \in Slots :
               ( reqs[s].op = "assist" /\ calls' # calls /\ reqs'[s] # reqs[s] )
                  => RecordsSince(reqs[s].user, today) < DAILY_LIMIT
         ]_vars
    /\ [](\A u \in Users : RecordsSince(u, today) <= DAILY_LIMIT)

\* after DAILY_LIMIT successful calls of ann today, her next request was
\* answered 429 and the service has been called DAILY_LIMIT times
C18_Witness ==
    \E s \in Slots :
        /\ reqs[s].pc = "done" /\ reqs[s].op = "assist" /\ reqs[s].user = "ann"
        /\ reqs[s].resp = RATE_LIMITED
        /\ RecordsSince("ann", today) = DAILY_LIMIT
        /\ FailedSince("ann", today) = 0
        /\ AllRecords = DAILY_LIMIT
        /\ calls = DAILY_LIMIT

(***************************************************************************)
(* C19.  The quota check is read-then-act: two concurrent requests of one  *)
(* user can both pass it with a count of DAILY_LIMIT - 1 and leave         *)
(* DAILY_LIMIT + 1 records for the day (the witness); with two requests in *)
(* flight the overrun is never larger than that, and a record is added at  *)
(* or above the limit only by a request that counted fewer than            *)
(* DAILY_LIMIT records.                                                    *)
(***************************************************************************)
\* the rows of openai_logs of user u created on day d
RecordsOn(u, d) == RecordsSince(u, d) - RecordsSince(u, d + 1)

C19_OverrunBoundedByConcurrency ==
    /\ [](\A d \in 0..MaxDay : RecordsOn("ann", d) <= DAILY_LIMIT + 1)
    /\ [][ \A s \in Slots :
              ( /\ reqs[s].op = "assist" /\ reqs[s].pc = "log" /\ reqs'[s] # reqs[s]
                /\ RecordsOn("ann", today) >= DAILY_LIMIT )
                 => /\ reqs[s].data[1].count < DAILY_LIMIT
                    /\ RecordsOn("ann", today)' = DAILY_LIMIT + 1
          ]_vars

\* both requests of ann counted DAILY_LIMIT - 1 records, both called the
\* service and both succeeded: ann has DAILY_LIMIT + 1 records for the day
C19_Witness ==
    /\ \A s \in Slots :
          /\ reqs[s].pc = "done" /\ reqs[s].op = "assist" /\ reqs[s].user = "ann"
          /\ reqs[s].resp = Success(200)
          /\ reqs[s].data[1].used = DAILY_LIMIT
    /\ RecordsOn("ann", today) = DAILY_LIMIT + 1
    /\ calls = DAILY_LIMIT + 1

(***************************************************************************)
(* C20.  An assist request whose answer from the external service cannot   *)
(* be parsed as JSON, or is JSON without the expected structure (not an    *)
(* object with improvedCopy and an array tags), ends with status 500 and   *)
(* with exactly one failed record added for the user, and that record is   *)
(* counted by the rate limit check.                                        *)
(***************************************************************************)
Unusable(completion) ==
    \/ completion.kind \in {"text", "empty", "null"}
    \/ /\ completion.kind = "object"
       /\ (completion.improvedCopy = <<>> \/ completion.tags # "array")

C20_UnusableAnswerIsRecorded ==
    [][ \A s \in Slots :
          ( /\ Completes(s, "assist")
            /\ reqs[s].pc \in {"call", "logparse", "logstructure"}
            /\ Unusable(reqs'[s].data[1].completion) )
             => /\ reqs'[s].resp.status = 500
                /\ AllRecords' = AllRecords + 1
                /\ FailedSince(reqs[s].user, today)' = FailedSince(reqs[s].user, today) + 1
                /\ CountSince(reqs[s].user, today)' = CountSince(reqs[s].user, today) + 1
      ]_vars

(***************************************************************************)
(* C21.  A request that carries no session is answered Unauthorized (401)  *)
(* by the gate of its route (withAuth, withAdmin or withResourceOwner):    *)
(* the step in which the gate resolves the caller ends the request, the    *)
(* handler behind the gate takes no step, the request is given no user and *)
(* no role, and no table changes.                                          *)
(***************************************************************************)
C21_NoCredentialsUnauthorized ==
    [][ \A s \in Slots :
          ( /\ reqs[s].pc = "session" /\ reqs[s].sess = NoSession
            /\ reqs'[s] # reqs[s] )
             => /\ reqs'[s].pc = "done"
                /\ reqs'[s].resp = UNAUTHORIZED
                /\ reqs'[s].user = NoUser
                /\ reqs'[s].role = NoProfile
                /\ StoreUnchanged
                /\ openai_logs' = openai_logs
                /\ ids' = ids
      ]_vars

(***************************************************************************)
(* C22.  A request whose session is valid but whose user has no profile    *)
(* row is authenticated with no role: it is never answered Unauthorized    *)
(* (401), and a route that requires the admin role answers it Forbidden.   *)
(***************************************************************************)
C22_ProfileMissingIsAuthenticated ==
    \A s \in Slots :
        ( /\ reqs[s].pc = "done"
          /\ reqs[s].sess # NoSession
          /\ reqs[s].sess \notin DOMAIN profiles )
           => /\ reqs[s].resp # UNAUTHORIZED
              /\ reqs[s].op = "decision" => reqs[s].resp = ADMIN_REQUIRED

(***************************************************************************)
(* C23.  A request is resolved to the identity of its own credentials:     *)
(* whatever requests the server process has served before, a request runs  *)
(* as the user of the session it carries, and a request without session    *)
(* as nobody.                                                              *)
(***************************************************************************)
\* the user a session stands for
UserOfSession(sess) == IF sess = NoSession THEN NoUser ELSE sess

\* the program points at which the gate of a request has resolved the caller
Resolved == ProgramPoints \ {"idle", "import", "session"}

C23_RequestRunsAsItsOwnUser ==
    \A s \in Slots :
        reqs[s].pc \in Resolved => reqs[s].user = UserOfSession(reqs[s].sess)

(***************************************************************************)
(* C24.  A request answered Unauthorized (401), Forbidden (403) or with a  *)
(* 400 has created, changed and deleted no idea, comment, notification or  *)
(* usage record.  Stated on the steps of a request: before its first write *)
(* a request is at one of the program points of NotYetWritten; it reaches  *)
(* them only by steps that write nothing, a step from them that writes     *)
(* ends the request with 200 or 201, and a 400, 401 or 403 is returned     *)
(* only from them, by a step that writes nothing.                          *)
(***************************************************************************)
NotYetWritten ==
    {"idle", "import", "session", "owner", "identity", "fetch", "check", "parse", "count"}
TablesUnchanged == /\ StoreUnchanged /\ openai_logs' = openai_logs
Refusals == {400, 401, 403}

C24_RefusalWritesNothing ==
    [][ \A s \in Slots :
          reqs'[s] # reqs[s]
             => /\ (reqs'[s].pc \in NotYetWritten \ {"idle"})
                     => (reqs[s].pc \in NotYetWritten /\ TablesUnchanged)
                /\ (reqs[s].pc \in NotYetWritten /\ ~TablesUnchanged)
                     => (reqs'[s].pc = "done" /\ reqs'[s].resp.status \in {200, 201})
                /\ (reqs'[s].pc = "done" /\ reqs'[s].resp.status \in Refusals)
                     => (reqs[s].pc \in NotYetWritten /\ TablesUnchanged)
      ]_vars

\* the DELETE of a submitted idea was refused with 403: the idea and its
\* comment are still there
C24_Witness ==
    \E s \in Slots :
        /\ Done(s, "delete") /\ reqs[s].resp = FORBIDDEN
        /\ StatusOf(reqs[s].idea) = "submitted"
        /\ \E c \in comments : c.idea_id = reqs[s].idea

\* a PUT of the owner with a title of two letters was refused with
\* Validation Error and the title of the draft is what it was
C24_WitnessValidation ==
    \E s \in Slots :
        /\ Done(s, "put") /\ reqs[s].resp = VALIDATION_ERROR
        /\ reqs[s].user = OwnerOf(reqs[s].idea)
        /\ StatusOf(reqs[s].idea) = "draft"
        /\ IdeaRow(reqs[s].idea).title = T_abc

(***************************************************************************)
(* C25.  PATCH /api/inbox creates and deletes no notification and changes  *)
(* no idea and no comment; of a notification it changes at most the read   *)
(* flag, and only when the request names its id and its recipient is the   *)
(* caller.  The notifications of other users that the request names and    *)
(* all notifications it does not name stay as they are.                    *)
(***************************************************************************)
Stripped(n) == [user_id |-> n.user_id, idea_id |-> n.idea_id, type |-> n.type,
                meta |-> n.meta, id |-> n.id]

C25_PatchChangesOnlyOwnReadFlags ==
    [][ \A s \in Slots :
          Acts(s, "patch")
             => /\ ideas' = ideas /\ comments' = comments
                /\ { Stripped(n) : n \in notifications' }
                      = { Stripped(n) : n \in notifications }
                /\ Cardinality(notifications') = Cardinality(notifications)
                /\ \A n \in notifications :
                      \/ n \in notifications'
                      \/ /\ n.id \in reqs'[s].body.ids
                         /\ n.user_id = UserOfSession(reqs'[s].sess)
      ]_vars

\* the PATCH of ann that names notification 1, which is hers, and
\* notification 2, which is bob's, has been handled: notification 2 is
\* still unread
C25_Witness ==
    \E s \in Slots :
        /\ Done(s, "patch") /\ reqs[s].sess = "ann" /\ reqs[s].user = "ann"
        /\ reqs[s].resp = INTERNAL_SERVER_ERROR
        /\ reqs[s].body.ids = {1, 2}
        /\ \E n \in notifications : n.id = 1 /\ n.user_id = "ann"
        /\ \E n \in notifications : n.id = 2 /\ n.user_id = "bob" /\ ~n.read

(***************************************************************************)
(* C26.  The list of ideas returned to a caller who is not an admin holds  *)
(* only ideas owned by the caller; an idea of another user is returned     *)
(* only to an admin.                                                       *)
(***************************************************************************)
\* the rows of a list response
Listed(s) == { reqs[s].data[k] : k \in 1..Len(reqs[s].data) }

C26_ListOnlyOwnUnlessAdmin ==
    \A s \in Slots :
        (reqs[s].pc = "done" /\ reqs[s].op = "list")
           => \A r \in Listed(s) :
                 \/ r.owner_id = UserOfSession(reqs[s].sess)
                 \/ RoleOf(reqs[s].sess) = "admin"

\* ann's well formed query for the drafts has been handled while a draft of
\* bob is stored: her response holds no row
C26_Witness ==
    \E s \in Slots :
        /\ Done(s, "list") /\ reqs[s].sess = "ann" /\ reqs[s].user = "ann"
        /\ listIdeasQuerySchema(reqs[s].body)
        /\ Listed(s) = {}
        /\ \E r \in ideas : r.owner_id = "bob" /\ r.status = reqs[s].body.status[1]

(***************************************************************************)
(* C27.  Comments are append-only.  As stated by the claim: every comment  *)
(* stored before a step is stored after it, unchanged.                     *)
(***************************************************************************)
C27_CommentsNeverChangeOrVanish ==
    [][ \A c \in comments : c \in comments' ]_vars

(***************************************************************************)
(* C27, amended.  No step changes the idea, the author or the body of a    *)
(* comment, and a comment is removed only together with its idea, by the   *)
(* DELETE of that idea: as long as its idea is stored, every comment in    *)
(* the table is stored as it was inserted.                                 *)
(***************************************************************************)
C27_CommentsLiveWithTheirIdea ==
    [][ /\ \A c \in comments :
             \/ c \in comments'
             \/ /\ IdeaExists(c.idea_id) /\ ~ExistsAfter(c.idea_id)
                /\ \A d \in comments' : d.id # c.id
                /\ \E s \in Slots : /\ reqs[s].op = "delete" /\ reqs[s].pc = "delete"
                                     /\ reqs[s].idea = c.idea_id
                                     /\ reqs'[s].pc = "done"
        /\ \A d \in comments' : d \in comments \/ (\A c \in comments : c.id # d.id)
      ]_vars

\* the comment on a draft has gone with the idea, which its owner deleted
C27_Witness ==
    \E s \in Slots :
        /\ Done(s, "delete") /\ reqs[s].resp = Success(200)
        /\ reqs[s].user = "ann" /\ reqs[s].role = "owner"
        /\ ids.comment = 1 /\ comments = {}
        /\ ~IdeaExists(reqs[s].idea)

(***************************************************************************)
(* C28.  A successful assist call whose rate limit check counted c records *)
(* of the user since the midnight it read returns the usage used = c + 1,  *)
(* limit = DAILY_LIMIT, remaining = DAILY_LIMIT - (c + 1); so on every     *)
(* success 1 <= used <= limit and remaining >= 0.  The request carries c   *)
(* from its rate limit check to its response.                              *)
(***************************************************************************)
C28_UsageCountsTheCall ==
    [][ \A s \in Slots :
          /\ ( /\ reqs[s].op = "assist" /\ reqs[s].pc = "count"
               /\ reqs'[s].pc = "call" )
                => reqs'[s].data[1].count
                      = RecordsSince(reqs[s].user, reqs[s].data[1].today)
          /\ ( /\ reqs[s].op = "assist" /\ reqs[s].pc = "call"
               /\ reqs'[s].pc \in {"log", "logparse", "logstructure"} )
                => reqs'[s].data[1].count = reqs[s].data[1].count
          /\ ( /\ Completes(s, "assist") /\ reqs'[s].resp.status = 200 )
                => LET c == reqs[s].data[1].count
                       usage == reqs'[s].data[1]
                   IN /\ reqs[s].pc = "log"
                      /\ usage.used = c + 1
                      /\ usage.limit = DAILY_LIMIT
                      /\ usage.remaining = DAILY_LIMIT - (c + 1)
                      /\ 1 <= usage.used /\ usage.used <= usage.limit
                      /\ usage.remaining >= 0
      ]_vars

\* the call that used up the quota of the day: used = limit, remaining = 0
C28_Witness ==
    \E s \in Slots :
        /\ reqs[s].pc = "done" /\ reqs[s].op = "assist"
        /\ reqs[s].resp = Success(200)
        /\ reqs[s].data[1].used = DAILY_LIMIT
        /\ reqs[s].data[1].remaining = 0
        /\ RecordsSince(reqs[s].user, today) = DAILY_LIMIT

(***************************************************************************)
(* C29.  In a decision the status check comes before the check of the      *)
(* comment.  As stated by the claim: the decision of an admin on an idea    *)
(* that is not submitted, with a comment shorter than 3 or longer than     *)
(* 1000 characters, is answered Invalid Status.                            *)
(***************************************************************************)
\* the request of slot s is a decision of an admin with an approve or reject
\* whose comment has a length out of range
BadCommentDecision(r) ==
    /\ r.op = "decision" /\ r.role = "admin"
    /\ r.body.action \in {"approve", "reject"}
    /\ (length(r.body.comment) < 3 \/ length(r.body.comment) > 1000)

C29_StatusCheckedBeforeComment ==
    \A s \in Slots :
        ( /\ reqs[s].pc = "done" /\ BadCommentDecision(reqs[s])
          /\ IdeaExists(reqs[s].idea)
          /\ StatusOf(reqs[s].idea) # "submitted" )
           => reqs[s].resp = INVALID_STATUS

(***************************************************************************)
(* C31.  An assist request is answered with success only in a step that    *)
(* persists its usage record: every step that completes an assist request  *)
(* with status 200 adds one record of the requesting user to openai_logs.  *)
(***************************************************************************)
C31_SuccessOnlyWithRecord ==
    [][ \A s \in Slots :
          ( /\ Completes(s, "assist")
            /\ reqs'[s].resp = Success(200) )
             => /\ AllRecords' = AllRecords + 1
                /\ RecordsSince(reqs[s].user, today)' = RecordsSince(reqs[s].user, today) + 1
      ]_vars

(***************************************************************************)
(* C32.  The quota window is the current day: the day of the midnight the  *)
(* request read from the clock.  The rate limit check of an assist request *)
(* answers RateLimited exactly when the user has DAILY_LIMIT or more       *)
(* records created on that day or later; records of earlier days are not   *)
(* counted, so a user without a record of the day is let through to the    *)
(* external service whatever the earlier usage was.                        *)
(***************************************************************************)
C32_QuotaWindowIsCurrentDay ==
    [][ \A s \in Slots :
          ( /\ reqs[s].op = "assist" /\ reqs[s].pc = "count"
            /\ reqs'[s] # reqs[s] )
             => LET u == reqs[s].user
                    n == RecordsSince(u, reqs[s].data[1].today)
                IN /\ (reqs'[s].pc = "done" /\ reqs'[s].resp = RATE_LIMITED)
                        <=> n >= DAILY_LIMIT
                   /\ n < DAILY_LIMIT
                        => reqs'[s].pc = "call" /\ reqs'[s].data[1].count = n
                   /\ n = 0 => reqs'[s].pc = "call"
      ]_vars

\* ann used up the quota of day 0 and is let through on day 1
C32_Witness ==
    /\ today = 1
    /\ RecordsSince("ann", 0) - RecordsSince("ann", 1) >= DAILY_LIMIT
    /\ RecordsSince("ann", 1) = 0
    /\ reqs["r1"].op = "assist" /\ reqs["r1"].pc = "call"
    /\ reqs["r1"].user = "ann"
    /\ reqs["r1"].data[1].count = 0
    /\ calls = DAILY_LIMIT

(***************************************************************************)
(* C33.  In every reachable state every comment and every notification     *)
(* references an idea that exists; this holds after an idea was deleted    *)
(* as well, for its comments and notifications are deleted with it.        *)
(***************************************************************************)
C33_RowsReferenceExistingIdea ==
    /\ \A c \in comments : \E r \in ideas : r.id = c.idea_id
    /\ \A n \in notifications : \E r \in ideas : r.id = n.idea_id

\* an idea that had a comment and a notification was deleted
C33_Witness ==
    \E s \in Slots :
        /\ reqs[s].pc = "done" /\ reqs[s].op = "delete"
        /\ reqs[s].resp = Success(200)
        /\ ideas = {}
        /\ ids.comment >= 1 /\ ids.notification >= 1
        /\ comments = {} /\ notifications = {}

(***************************************************************************)
(* C34.  For any interleaving of decision requests on one idea: a decision *)
(* that answers 200 has itself moved the idea from submitted to the status *)
(* it asked for; no two decisions on one idea hold a 200 at the same time; *)
(* and decision comments, status_change notifications of decisions and     *)
(* decided status changes stay equal in number: a step that moves an idea  *)
(* to approved or rejected is the step of a decision and creates one       *)
(* comment of the deciding admin on that idea and one status_change        *)
(* notification for it, and a step of a decision that moves no idea        *)
(* creates neither.                                                        *)
(***************************************************************************)
\* idea i moves to approved or rejected in this step
DecidedNow(i) ==
    /\ IdeaExists(i) /\ ExistsAfter(i) /\ StatusOf(i)' # StatusOf(i)
    /\ StatusOf(i)' \in {"approved", "rejected"}

C34_SuccessfulDecisionMovedSubmitted ==
    [][ /\ \A s \in Slots :
             (Completes(s, "decision") /\ reqs'[s].resp = Success(200))
                => /\ StatusOf(reqs'[s].idea) = "submitted"
                   /\ StatusAfter(reqs'[s].idea) = Decided(reqs'[s].body)
        /\ \A s, t \in Slots :
             ( /\ s # t /\ reqs'[s].pc = "done" /\ reqs'[t].pc = "done"
               /\ reqs'[s].op = "decision" /\ reqs'[t].op = "decision"
               /\ reqs'[s].idea = reqs'[t].idea )
                => ~(reqs'[s].resp = Success(200) /\ reqs'[t].resp = Success(200))
        /\ \A i \in IdeaIds :
             LET moved == IF DecidedNow(i) THEN 1 ELSE 0
             IN /\ Cardinality({ n \in NewNotifications :
                                   /\ n.type = "status_change" /\ n.idea_id = i
                                   /\ n.meta.new_status \in {"approved", "rejected"} })
                      = moved
                /\ Cardinality({ c \in NewComments :
                                   /\ c.idea_id = i
                                   /\ \E s \in Slots :
                                         /\ Acts(s, "decision")
                                         /\ reqs'[s].idea = i
                                         /\ c.author_id = reqs'[s].user }) = moved
                /\ DecidedNow(i) => \E s \in Slots : /\ Acts(s, "decision")
                                                      /\ reqs'[s].idea = i
      ]_vars

\* two decisions of admin bob on the submitted idea of ann, one to approve
\* and one to reject, were in flight together and both have returned; the
\* idea is submitted still
C34_Witness ==
    /\ Done("r1", "decision") /\ Done("r2", "decision")
    /\ reqs["r1"].user = "bob" /\ reqs["r2"].user = "bob"
    /\ reqs["r1"].idea = reqs["r2"].idea
    /\ reqs["r1"].body.action = "approve" /\ reqs["r2"].body.action = "reject"
    /\ OwnerOf(reqs["r1"].idea) = "ann"
    /\ StatusOf(reqs["r1"].idea) = "submitted"

(***************************************************************************)
(* C35.  The title, description and tags of an idea do not change while    *)
(* its status is approved: for any interleaving of a PUT of the idea's     *)
(* owner with submit and decision requests, no step of that PUT taken in a *)
(* state where the idea is approved changes one of the three.              *)
(***************************************************************************)
C35_ApprovedContentFrozen ==
    [][ \A s \in Slots, i \in IdeaIds :
          ( /\ IdeaExists(i) /\ StatusOf(i) = "approved" /\ ExistsAfter(i)
            /\ reqs[s].op = "put" /\ reqs[s].idea = i
            /\ reqs[s].user = OwnerOf(i)
            /\ reqs'[s] # reqs[s] )
             => /\ IdeaRow(i).title' = IdeaRow(i).title
                /\ IdeaRow(i).description' = IdeaRow(i).description
                /\ IdeaRow(i).tags' = IdeaRow(i).tags
      ]_vars

\* the PUT of ann for her approved idea was refused with 403 while a
\* decision of bob on the idea has returned as well
C35_Witness ==
    \E s, t \in Slots :
        /\ Done(s, "put") /\ reqs[s].user = "ann" /\ reqs[s].resp = FORBIDDEN
        /\ OwnerOf(reqs[s].idea) = "ann" /\ StatusOf(reqs[s].idea) = "approved"
        /\ Done(t, "decision") /\ reqs[t].idea = reqs[s].idea

(***************************************************************************)
(* C36.  An idea is not deleted while its status is submitted, approved or *)
(* rejected: for any interleaving of DELETE, submit and decision requests, *)
(* an idea that exists with one of these statuses exists after the step.   *)
(***************************************************************************)
C36_OnlyDraftsAreDeleted ==
    [][ \A i \in IdeaIds :
          (IdeaExists(i) /\ StatusOf(i) \in {"submitted", "approved", "rejected"})
             => ExistsAfter(i)
      ]_vars

\* the DELETE of ann for her rejected idea was refused while her submit of
\* that idea has ended; the idea is there
C36_Witness ==
    \E s, t \in Slots :
        /\ Done(s, "delete") /\ reqs[s].user = "ann" /\ reqs[s].resp = FORBIDDEN
        /\ OwnerOf(reqs[s].idea) = "ann" /\ StatusOf(reqs[s].idea) = "rejected"
        /\ Done(t, "submit") /\ reqs[t].idea = reqs[s].idea /\ reqs[t].user = "ann"

(***************************************************************************)
(* C37.  Every idea whose status is submitted or approved has a title of   *)
(* at least 3 characters after trimming, whatever sequence of create,      *)
(* update, submit and decision requests led there: no step of a request    *)
(* leads from a state where this holds to a state where it does not.       *)
(***************************************************************************)
TitlesLongEnough(rows) ==
    \A r \in rows :
        r.status \in {"submitted", "approved"} => length(trim(r.title)) >= 3

C37_SubmittedTitleIsLongEnough ==
    [][ TitlesLongEnough(ideas) => TitlesLongEnough(ideas') ]_vars

\* admin bob's PUT of the title " ab" for the submitted idea of ann has been
\* handled; the title is "abc" as before
C37_Witness ==
    \E s \in Slots :
        /\ Done(s, "put") /\ reqs[s].user = "bob"
        /\ reqs[s].resp = INTERNAL_SERVER_ERROR
        /\ reqs[s].body.title = <<T_pad>>
        /\ IdeaExists(reqs[s].idea)
        /\ OwnerOf(reqs[s].idea) = "ann" /\ StatusOf(reqs[s].idea) = "submitted"
        /\ IdeaRow(reqs[s].idea).title = T_abc

(***************************************************************************)
(* C38.  With roles unchanged, no comment accepted by the comment or the   *)
(* decision endpoint triggers both fan-out rules.  The author of an        *)
(* accepted comment is the owner of the idea or an admin; a step that      *)
(* inserts a comment of an admin who is not the owner creates exactly one  *)
(* notification, admin_comment for the owner; a comment of an owner who is *)
(* not an admin creates new_comment notifications for the admins and       *)
(* nothing else; a comment of an admin on their own idea creates none.  No *)
(* step creates a notification of type user_comment.                       *)
(***************************************************************************)
C38_NeverBothFanOutRules ==
    [][ /\ \A c \in NewComments :
              LET isOwner == c.author_id = OwnerOf(c.idea_id)
                  isAdmin == RoleOf(c.author_id) = "admin"
              IN /\ isOwner \/ isAdmin
                 /\ (isAdmin /\ ~isOwner)
                      => /\ Cardinality(NewNotifications) = 1
                         /\ \A n \in NewNotifications :
                               n.user_id = OwnerOf(c.idea_id) /\ n.type = "admin_comment"
                 /\ (~isAdmin /\ isOwner)
                      => /\ Cardinality(NewNotifications) = Cardinality(Admins)
                         /\ \A n \in NewNotifications :
                               n.user_id \in Admins /\ n.type = "new_comment"
                 /\ (isAdmin /\ isOwner) => NewNotifications = {}
        /\ \A n \in NewNotifications : n.type # "user_comment"
      ]_vars

\* the comment request of dan, neither owner nor admin, for the idea of ann
\* has been handled: there is no comment of dan and no user_comment
\* notification
C38_Witness ==
    \E s \in Slots :
        /\ Done(s, "comment") /\ reqs[s].user = "dan" /\ reqs[s].role = "owner"
        /\ createCommentSchema(reqs[s].body)
        /\ IdeaExists(reqs[s].idea)
        /\ OwnerOf(reqs[s].idea) = "ann"
        /\ \A c \in comments : c.author_id # "dan"
        /\ \A n \in notifications : n.type # "user_comment"

(***************************************************************************)
(* C40.  With one user's assist requests handled one at a time, the        *)
(* external service is invoked for that user at most DAILY_LIMIT times     *)
(* within one day, also when calls fail with an API error or the usage     *)
(* record cannot be persisted.  All requests are ann's, so on the first    *)
(* day the calls counted are her calls of that day.                        *)
(***************************************************************************)
C40_CallsWithinDailyLimit ==
    today = 0 => calls <= DAILY_LIMIT

====
